---- MODULE Spec2Model ----
(***************************************************************************)
(* The resumable extract-normalize-load pipeline of                       *)
(* scripts/openalex_python_extractor.py: the batch driver                  *)
(* process_json_records, the extractors it calls, the insert_/link_        *)
(* functions of the relational store, clean_db_tables, run_matching_script *)
(* and the sequencing of main.                                             *)
(***************************************************************************)
EXTENDS Integers, Sequences, FiniteSets, TLC

(***************************************************************************)
(* Bounds of the model.                                                    *)
(***************************************************************************)
\* raw documents in openalex.raw_json, ids 1..NDocs
NDocs == 3
\* --batch-size is drawn from 1..MaxBatch
MaxBatch == 2
\* injected faults in one behaviour: a store statement that raises, or a
\* crash of the process
MaxFaults == 1
\* runs of main in one behaviour (the first and the restarts)
MaxRuns == 2

(***************************************************************************)
(* JSON values as json.loads returns them.  An object is the sequence of   *)
(* its (key, value) pairs in document order, as a Python dict keeps them.  *)
(***************************************************************************)
Null == [t |-> "null"]
Str(s) == [t |-> "str", v |-> s]
Num(n) == [t |-> "num", v |-> n]
Bool(b) == [t |-> "bool", v |-> b]
Obj(pairs) == [t |-> "obj", v |-> pairs]
List(elems) == [t |-> "list", v |-> elems]

IsDict(x) == x.t = "obj"
IsList(x) == x.t = "list"

\* the result of a call: a value, or an exception
Ok(x) == [ok |-> TRUE, val |-> x]
Raised == [ok |-> FALSE]

\* bool(x)
Truthy(x) ==
    CASE x.t = "null" -> FALSE
      [] x.t = "str" -> x.v # ""
      [] x.t = "num" -> x.v # 0
      [] x.t = "bool" -> x.v
      [] x.t = "obj" -> Len(x.v) > 0
      [] x.t = "list" -> Len(x.v) > 0

\* k in d, for a dict d
HasKey(d, k) == \E i \in 1..Len(d.v) : d.v[i][1] = k

\* d[k] for a key that is present (a repeated key keeps its last value)
Item(d, k) ==
    LET i == CHOOSE j \in 1..Len(d.v) :
                 /\ d.v[j][1] = k
                 /\ \A m \in (j + 1)..Len(d.v) : d.v[m][1] # k
    IN d.v[i][2]

\* d.get(k, default)
GetDefault(d, k, default) == IF HasKey(d, k) THEN Item(d, k) ELSE default

\* d.get(k)
Get(d, k) == GetDefault(d, k, Null)

\* list(d.keys()): each key once, at the place of its first occurrence
RECURSIVE KeysFrom(_, _)
KeysFrom(d, i) ==
    IF i > Len(d.v) THEN <<>>
    ELSE IF \E j \in 1..(i - 1) : d.v[j][1] = d.v[i][1]
         THEN KeysFrom(d, i + 1)
         ELSE <<d.v[i][1]>> \o KeysFrom(d, i + 1)
Keys(d) == KeysFrom(d, 1)

\* how a value is bound to a statement parameter and stored in a column
SqlVal(x) ==
    CASE x.t = "null" -> "NULL"
      [] x.t = "str" -> x.v
      [] x.t = "num" -> ToString(x.v)
      [] x.t = "bool" -> IF x.v THEN "true" ELSE "false"
      [] OTHER -> "?"

(***************************************************************************)
(* get_nested_value                                                        *)
(***************************************************************************)
RECURSIVE get_nested_value(_, _, _)
get_nested_value(data, args, default) ==
    IF args = <<>> THEN data
    ELSE IF IsDict(data) /\ HasKey(data, Head(args))
         THEN get_nested_value(Item(data, Head(args)), Tail(args), default)
         ELSE default

(***************************************************************************)
(* rebuild_abstract_from_inverted_index                                    *)
(***************************************************************************)
\* for pos in positions: the elements of a list, the keys of a dict, the
\* characters of a text (here: a text of at most one character); None, a
\* number and a boolean are not iterable
Iterated(positions) ==
    CASE positions.t = "list" -> Ok(positions.v)
      [] positions.t = "obj" ->
            Ok([i \in 1..Len(Keys(positions)) |-> Str(Keys(positions)[i])])
      [] positions.t = "str" /\ Len(positions.v) <= 1 ->
            Ok(IF positions.v = "" THEN <<>> ELSE <<positions>>)
      [] OTHER -> Raised

\* the (word, position) pairs in the order the two nested loops append them;
\* Raised when the index is no dict or a position list cannot be iterated
RECURSIVE WordPositions(_, _)
WordPositions(index, ks) ==
    IF ks = <<>> THEN Ok(<<>>)
    ELSE LET word == Head(ks)
             positions == Iterated(Item(index, word))
             rest == WordPositions(index, Tail(ks))
         IN IF ~positions.ok \/ ~rest.ok THEN Raised
            ELSE Ok([i \in 1..Len(positions.val) |-> <<word, positions.val[i]>>]
                    \o rest.val)

\* a sort that puts a pair before the earlier pairs of its position
RECURSIVE InsertByPos_unstable(_, _)
InsertByPos_unstable(sorted, wp) ==
    IF sorted = <<>> THEN <<wp>>
    ELSE IF wp[2].v <= Head(sorted)[2].v
         THEN <<wp>> \o sorted
         ELSE <<Head(sorted)>> \o InsertByPos_unstable(Tail(sorted), wp)

\* list.sort(key=lambda x: x[1]): stable, ascending by position
RECURSIVE InsertByPos(_, _)
InsertByPos(sorted, wp) ==
    IF sorted = <<>> THEN <<wp>>
    ELSE IF wp[2].v < Head(sorted)[2].v
         THEN <<wp>> \o sorted
         ELSE <<Head(sorted)>> \o InsertByPos(Tail(sorted), wp)

RECURSIVE SortByPos(_)
SortByPos(wps) ==
    IF wps = <<>> THEN <<>>
    ELSE InsertByPos(SortByPos(SubSeq(wps, 1, Len(wps) - 1)), wps[Len(wps)])

\* ' '.join(words)
RECURSIVE JoinWords(_)
JoinWords(wps) ==
    IF wps = <<>> THEN ""
    ELSE IF Len(wps) = 1 THEN wps[1][1]
         ELSE wps[1][1] \o " " \o JoinWords(Tail(wps))

rebuild_abstract_from_inverted_index(inverted_index) ==
    IF ~Truthy(inverted_index) THEN Ok(Null)
    ELSE IF ~IsDict(inverted_index) THEN Raised
    ELSE LET wps == WordPositions(inverted_index, Keys(inverted_index))
         IN IF ~wps.ok THEN Raised
            ELSE IF Len(wps.val) <= 1 THEN Ok(Str(JoinWords(wps.val)))
            \* positions are numbers; sorting a number against a value of
            \* another type, or None against None, raises TypeError; equal
            \* texts stay in their order
            ELSE IF \A i \in 1..Len(wps.val) : wps.val[i][2].t = "num"
                 THEN Ok(Str(JoinWords(SortByPos(wps.val))))
                 ELSE IF \A i \in 1..Len(wps.val) :
                            /\ wps.val[i][2].t = "str"
                            /\ wps.val[i][2] = wps.val[1][2]
                      THEN Ok(Str(JoinWords(wps.val)))
                      ELSE Raised

(***************************************************************************)
(* extract_work_data                                                       *)
(***************************************************************************)
WorkColumns ==
    <<"id", "doi", "title", "display_name", "publication_year",
      "publication_date", "language", "type", "type_crossref",
      "cited_by_count", "is_retracted", "is_paratext", "created_date",
      "updated_date", "abstract">>

extract_work_data(data) ==
    IF ~IsDict(data) THEN Raised
    ELSE LET abstract ==
                 IF HasKey(data, "abstract_inverted_index")
                    /\ Truthy(Item(data, "abstract_inverted_index"))
                 THEN rebuild_abstract_from_inverted_index(
                          Item(data, "abstract_inverted_index"))
                 ELSE Ok(Null)
         IN IF ~abstract.ok THEN Raised
            ELSE Ok([c \in {WorkColumns[i] : i \in 1..Len(WorkColumns)} |->
                        IF c = "abstract" THEN abstract.val ELSE Get(data, c)])

(***************************************************************************)
(* extract_ids                                                             *)
(***************************************************************************)
extract_ids(data) ==
    IF HasKey(data, "ids") /\ IsDict(Item(data, "ids"))
    THEN LET ids == Item(data, "ids")
             ks == Keys(ids)
         IN Ok([i \in 1..Len(ks) |->
                   [id_type |-> ks[i], id_value |-> Item(ids, ks[i])]])
    ELSE Ok(<<>>)

(***************************************************************************)
(* The list-to-list extractors: one record per element of data[key]; the   *)
(* element must be a dict, as each calls element.get.                      *)
(***************************************************************************)
ListOf(data, key) ==
    IF HasKey(data, key) /\ IsList(Item(data, key))
    THEN Item(data, key).v
    ELSE <<>>

AllDicts(elems) == \A i \in 1..Len(elems) : IsDict(elems[i])

\* x.get(key, {}) followed by .get on the result: Raised unless a dict
SubDict(x, key) ==
    LET sub == GetDefault(x, key, Obj(<<>>))
    IN IF IsDict(sub) THEN Ok(sub) ELSE Raised

extract_authors(data) ==
    LET as == ListOf(data, "authorships")
    IN IF ~AllDicts(as) \/ \E i \in 1..Len(as) : ~SubDict(as[i], "author").ok
       THEN Raised
       ELSE Ok([i \in 1..Len(as) |->
                LET author == SubDict(as[i], "author").val
                IN [author_id |-> Get(author, "id"),
                    display_name |-> Get(author, "display_name"),
                    orcid |-> Get(author, "orcid"),
                    author_position |-> Get(as[i], "author_position"),
                    is_corresponding |->
                        GetDefault(as[i], "is_corresponding", Bool(FALSE)),
                    raw_author_name |-> Get(as[i], "raw_author_name"),
                    raw_affiliation_strings |->
                        GetDefault(as[i], "raw_affiliation_strings", List(<<>>)),
                    institutions |-> GetDefault(as[i], "institutions", List(<<>>)),
                    countries |-> GetDefault(as[i], "countries", List(<<>>))]])

institution_record(inst) ==
    [id |-> Get(inst, "id"),
     display_name |-> Get(inst, "display_name"),
     ror |-> Get(inst, "ror"),
     country_code |-> Get(inst, "country_code"),
     type |-> Get(inst, "type")]

extract_concepts(data) ==
    LET cs == ListOf(data, "concepts")
    IN IF ~AllDicts(cs) THEN Raised
       ELSE Ok([i \in 1..Len(cs) |->
                [id |-> Get(cs[i], "id"),
                 wikidata |-> Get(cs[i], "wikidata"),
                 display_name |-> Get(cs[i], "display_name"),
                 level |-> Get(cs[i], "level"),
                 score |-> Get(cs[i], "score")]])

extract_topics(data) ==
    LET ts == ListOf(data, "topics")
    IN IF \/ ~AllDicts(ts)
          \/ \E i \in 1..Len(ts) :
                 \/ ~SubDict(ts[i], "subfield").ok
                 \/ ~SubDict(ts[i], "field").ok
                 \/ ~SubDict(ts[i], "domain").ok
       THEN Raised
       ELSE Ok([i \in 1..Len(ts) |->
                LET subfield == SubDict(ts[i], "subfield").val
                    field == SubDict(ts[i], "field").val
                    domain == SubDict(ts[i], "domain").val
                IN [id |-> Get(ts[i], "id"),
                    display_name |-> Get(ts[i], "display_name"),
                    score |-> Get(ts[i], "score"),
                    subfield_id |-> Get(subfield, "id"),
                    subfield_name |-> Get(subfield, "display_name"),
                    field_id |-> Get(field, "id"),
                    field_name |-> Get(field, "display_name"),
                    domain_id |-> Get(domain, "id"),
                    domain_name |-> Get(domain, "display_name")]])

\* one location record; source is location.get('source', {}): its id when
\* it is a truthy dict, None when it is falsy, and an exception otherwise
location_record(location, is_primary) ==
    LET source == GetDefault(location, "source", Obj(<<>>))
    IN IF ~IsDict(location) \/ (Truthy(source) /\ ~IsDict(source)) THEN Raised
       ELSE Ok([is_primary |-> Bool(is_primary),
                is_oa |-> Get(location, "is_oa"),
                landing_page_url |-> Get(location, "landing_page_url"),
                pdf_url |-> Get(location, "pdf_url"),
                source_id |-> IF Truthy(source) THEN Get(source, "id") ELSE Null,
                license |-> Get(location, "license"),
                version |-> Get(location, "version"),
                is_accepted |-> Get(location, "is_accepted"),
                is_published |-> Get(location, "is_published")])

extract_locations(data) ==
    LET hasPrimary == HasKey(data, "primary_location")
                      /\ Truthy(Item(data, "primary_location"))
        primary == IF hasPrimary
                   THEN location_record(Item(data, "primary_location"), TRUE)
                   ELSE Raised
        ls == ListOf(data, "locations")
    IN IF \/ (hasPrimary /\ ~primary.ok)
          \/ \E i \in 1..Len(ls) : ~location_record(ls[i], FALSE).ok
       THEN Raised
       ELSE Ok((IF hasPrimary THEN <<primary.val>> ELSE <<>>)
               \o [i \in 1..Len(ls) |-> location_record(ls[i], FALSE).val])

extract_references(data) == Ok(ListOf(data, "referenced_works"))

extract_grants(data) ==
    LET gs == ListOf(data, "grants")
    IN IF ~AllDicts(gs) THEN Raised
       ELSE Ok([i \in 1..Len(gs) |->
                [funder |-> Get(gs[i], "funder"),
                 funder_display_name |-> Get(gs[i], "funder_display_name"),
                 award_id |-> Get(gs[i], "award_id")]])

extract_keywords(data) ==
    LET ks == ListOf(data, "keywords")
    IN IF ~AllDicts(ks) THEN Raised
       ELSE Ok([i \in 1..Len(ks) |->
                [id |-> Get(ks[i], "id"),
                 display_name |-> Get(ks[i], "display_name"),
                 score |-> Get(ks[i], "score")]])

extract_sdgs(data) ==
    LET ss == ListOf(data, "sustainable_development_goals")
    IN IF ~AllDicts(ss) THEN Raised
       ELSE Ok([i \in 1..Len(ss) |->
                [id |-> Get(ss[i], "id"),
                 display_name |-> Get(ss[i], "display_name"),
                 score |-> Get(ss[i], "score")]])

(***************************************************************************)
(* extract_institutions and extract_sources: the values of a dict that is  *)
(* filled under `key not in dict`, in the order the keys were added.       *)
(***************************************************************************)
\* a value can be the key of a dict
Hashable(x) == x.t \notin {"list", "obj"}

\* keys that compare equal are one key: True and 1, False and 0
DictKey(x) == IF x.t = "bool" THEN Num(IF x.v THEN 1 ELSE 0) ELSE x

\* the institutions of all authors, in the order the two loops visit them
RECURSIVE AuthorInstitutions(_)
AuthorInstitutions(authors) ==
    IF authors = <<>> THEN Ok(<<>>)
    ELSE LET first == Iterated(Head(authors).institutions)
             rest == AuthorInstitutions(Tail(authors))
         IN IF ~first.ok \/ ~rest.ok THEN Raised
            ELSE Ok(first.val \o rest.val)

\* 'id' in inst: a key of a dict, an element of a list, a part of a text
\* (here: the text 'id' or a text without it); TypeError otherwise
HasId(inst) ==
    CASE inst.t = "obj" -> Ok(HasKey(inst, "id"))
      [] inst.t = "list" -> Ok(\E i \in 1..Len(inst.v) : inst.v[i] = Str("id"))
      [] inst.t = "str" -> Ok(inst.v = "id")
      [] OTHER -> Raised

\* inst['id'] not in institutions, with the last mention of an id taken
\* for the first
FirstMention_last(insts, i) ==
    \A j \in (i + 1)..Len(insts) :
        ~(HasId(insts[j]).val
          /\ DictKey(Item(insts[j], "id")) = DictKey(Item(insts[i], "id")))

\* inst['id'] not in institutions: no earlier institution was kept under
\* this id
FirstMention(insts, i) ==
    \A j \in 1..(i - 1) :
        ~(HasId(insts[j]).val
          /\ DictKey(Item(insts[j], "id")) = DictKey(Item(insts[i], "id")))

\* the records of the institutions from the i-th on that are kept
RECURSIVE KeptInstitutions(_, _)
KeptInstitutions(insts, i) ==
    IF i > Len(insts) THEN <<>>
    ELSE (IF HasId(insts[i]).val /\ FirstMention(insts, i)
          THEN <<institution_record(insts[i])>> ELSE <<>>)
         \o KeptInstitutions(insts, i + 1)

\* inst['id'] raises for an inst that is no dict, and the test `not in` for
\* an id that cannot be hashed
extract_institutions(authors) ==
    LET insts == AuthorInstitutions(authors)
    IN IF ~insts.ok THEN Raised
       ELSE IF \E i \in 1..Len(insts.val) :
                  \/ ~HasId(insts.val[i]).ok
                  \/ /\ HasId(insts.val[i]).val
                     /\ \/ ~IsDict(insts.val[i])
                        \/ ~Hashable(Item(insts.val[i], "id"))
            THEN Raised
            ELSE Ok(KeptInstitutions(insts.val, 1))

\* the sources of the locations from the i-th on that are kept
RECURSIVE KeptSources(_, _)
KeptSources(locations, i) ==
    IF i > Len(locations) THEN <<>>
    ELSE (IF /\ Truthy(locations[i].source_id)
             /\ \A j \in 1..(i - 1) :
                   ~(/\ Truthy(locations[j].source_id)
                     /\ DictKey(locations[j].source_id)
                          = DictKey(locations[i].source_id))
          THEN <<[id |-> locations[i].source_id, display_name |-> Null,
                  issn_l |-> Null, type |-> Null]>>
          ELSE <<>>)
         \o KeptSources(locations, i + 1)

extract_sources(locations) ==
    IF \E i \in 1..Len(locations) :
           Truthy(locations[i].source_id) /\ ~Hashable(locations[i].source_id)
    THEN Raised
    ELSE Ok(KeptSources(locations, 1))

(***************************************************************************)
(* The raw documents. json_content holds a text; json.loads maps it to a  *)
(* value or raises JSONDecodeError.  NoneText is a NULL json_content.      *)
(***************************************************************************)
NoneText == "<None>"

Texts == <<"w1", "w2", "bad", NoneText, "list">>

\* {"id":"W1","title":"T","abstract_inverted_index":{"A":[0],"B":[1]},
\*  "ids":{"openalex":"W1","doi":"D1"},
\*  "authorships":[{"author":{"id":"A1","display_name":"X"},
\*                  "institutions":[{"id":"I1","display_name":"Inst"}]}],
\*  "primary_location":{"source":{"id":"S1"}},
\*  "locations":[{"source":null}],
\*  "grants":[{"funder":"F1","award_id":"G1"}]}
DocW1 ==
    Obj(<< <<"id", Str("W1")>>, <<"title", Str("T")>>,
           <<"abstract_inverted_index",
             Obj(<< <<"A", List(<<Num(0)>>)>>, <<"B", List(<<Num(1)>>)>> >>)>>,
           <<"ids", Obj(<< <<"openalex", Str("W1")>>, <<"doi", Str("D1")>> >>)>>,
           <<"authorships",
             List(<< Obj(<< <<"author", Obj(<< <<"id", Str("A1")>>,
                                               <<"display_name", Str("X")>> >>)>>,
                            <<"institutions",
                              List(<< Obj(<< <<"id", Str("I1")>>,
                                             <<"display_name", Str("Inst")>> >>) >>)>>
                         >>) >>)>>,
           <<"primary_location",
             Obj(<< <<"source", Obj(<< <<"id", Str("S1")>> >>)>> >>)>>,
           <<"locations", List(<< Obj(<< <<"source", Null>> >>) >>)>>,
           <<"grants", List(<< Obj(<< <<"funder", Str("F1")>>,
                                      <<"award_id", Str("G1")>> >>) >>)>> >>)

\* {"id":"W2","display_name":"N2",
\*  "authorships":[{"author":{"id":"A1","display_name":"X2","orcid":"O1"},
\*                  "is_corresponding":true}],
\*  "concepts":[{"id":"C1","display_name":"Con","score":"0.9"}],
\*  "topics":[{"id":"T1","score":"0.8","subfield":{"id":"SF1"}}],
\*  "referenced_works":["W1"],
\*  "keywords":[{"id":"K1","score":"0.7"},{"id":null}],
\*  "sustainable_development_goals":[{"id":"G3","score":"0.6"}]}
DocW2 ==
    Obj(<< <<"id", Str("W2")>>, <<"display_name", Str("N2")>>,
           <<"authorships",
             List(<< Obj(<< <<"author", Obj(<< <<"id", Str("A1")>>,
                                               <<"display_name", Str("X2")>>,
                                               <<"orcid", Str("O1")>> >>)>>,
                            <<"is_corresponding", Bool(TRUE)>> >>) >>)>>,
           <<"concepts",
             List(<< Obj(<< <<"id", Str("C1")>>, <<"display_name", Str("Con")>>,
                            <<"score", Str("0.9")>> >>) >>)>>,
           <<"topics",
             List(<< Obj(<< <<"id", Str("T1")>>, <<"score", Str("0.8")>>,
                            <<"subfield", Obj(<< <<"id", Str("SF1")>> >>)>> >>) >>)>>,
           <<"referenced_works", List(<< Str("W1") >>)>>,
           <<"keywords",
             List(<< Obj(<< <<"id", Str("K1")>>, <<"score", Str("0.7")>> >>),
                     Obj(<< <<"id", Null>> >>) >>)>>,
           <<"sustainable_development_goals",
             List(<< Obj(<< <<"id", Str("G3")>>, <<"score", Str("0.6")>> >>) >>)>>
        >>)

\* [{"id":"W4","title":"T4",
\*   "authorships":[{"author":{"id":"A4"},
\*                   "institutions":[{"id":null,"display_name":"In"}]}]},
\*  {"id":"W5","authorships":[{"author":{"id":null,"display_name":"Y"}}],
\*   "concepts":[{"id":null,"display_name":"Cn"}],"topics":[{"id":null}]},
\*  {"id":"W6","authorships":[{"author":null}]},
\*  {"id":"W7"}]
DocList ==
    List(<< Obj(<< <<"id", Str("W4")>>, <<"title", Str("T4")>>,
                   <<"authorships",
                     List(<< Obj(<< <<"author", Obj(<< <<"id", Str("A4")>> >>)>>,
                                    <<"institutions",
                                      List(<< Obj(<< <<"id", Null>>,
                                                     <<"display_name", Str("In")>>
                                                  >>) >>)>> >>) >>)>> >>),
            Obj(<< <<"id", Str("W5")>>,
                   <<"authorships",
                     List(<< Obj(<< <<"author",
                                      Obj(<< <<"id", Null>>,
                                             <<"display_name", Str("Y")>> >>)>>
                                 >>) >>)>>,
                   <<"concepts",
                     List(<< Obj(<< <<"id", Null>>,
                                    <<"display_name", Str("Cn")>> >>) >>)>>,
                   <<"topics", List(<< Obj(<< <<"id", Null>> >>) >>)>> >>),
            Obj(<< <<"id", Str("W6")>>,
                   <<"authorships", List(<< Obj(<< <<"author", Null>> >>) >>)>> >>),
            Obj(<< <<"id", Str("W7")>> >>) >>)

\* json.loads(text)
json_loads(text) ==
    CASE text = "w1" -> Ok(DocW1)
      [] text = "w2" -> Ok(DocW2)
      [] text = "list" -> Ok(DocList)
      [] OTHER -> Raised

\* items = data if isinstance(data, list) else [data]
ItemsOf(data) == IF IsList(data) THEN data.v ELSE <<data>>

(***************************************************************************)
(* The body of `for item in items` in process_json_records, as the list of *)
(* the calls it makes in program order.  Each entry names the function f,  *)
(* its arguments a, a label k, and g: the label of the earlier call whose  *)
(* return value the code tests before making this one ("": none).  A call  *)
(* is made only when the value returned by call g is truthy; "raise"       *)
(* stands for a statement that raises there (an extractor, or the          *)
(* iteration of a value that is no list), which ends the handling of the   *)
(* record in the except clause.                                            *)
(***************************************************************************)
Call(f, k, g, a) == [f |-> f, k |-> k, g |-> g, a |-> a]
RaiseAt(k, g) == Call("raise", k, g, Null)

RECURSIVE Flatten(_)
Flatten(seqs) ==
    IF seqs = <<>> THEN <<>> ELSE Head(seqs) \o Flatten(Tail(seqs))

\* for inst in author.get('institutions', []): if 'id' in inst: ...
InstitutionCalls(work_id, author, ka) ==
    IF ~IsList(author.institutions) THEN <<RaiseAt(ka \o ".insts", ka)>>
    ELSE LET insts == author.institutions.v
         IN Flatten([j \in 1..Len(insts) |->
                LET ki == ka \o ".inst" \o ToString(j)
                IN IF ~IsDict(insts[j]) THEN <<RaiseAt(ki, ka)>>
                   ELSE IF ~HasKey(insts[j], "id") THEN <<>>
                   ELSE <<Call("insert_institution", ki, ka,
                               institution_record(insts[j])),
                          Call("link_author_to_institution", ki \o ".link", ki,
                               [work_id |-> work_id,
                                author_id |-> author.author_id,
                                institution_id |-> Get(insts[j], "id")])>>])

\* for author in authors: ...
AuthorCalls(work_id, authors) ==
    Flatten([i \in 1..Len(authors) |->
        LET author == authors[i]
            ka == "author" \o ToString(i)
        IN <<Call("insert_author", ka, "work", author),
             Call("link_author_to_work", ka \o ".link", ka,
                  [work_id |-> work_id,
                   author_id |-> author.author_id,
                   author_position |-> author.author_position,
                   is_corresponding |-> author.is_corresponding,
                   raw_author_name |-> author.raw_author_name])>>
           \o InstitutionCalls(work_id, author, ka)])

\* for x in xs: x_id = insert_x(x); if x_id: link_x_to_work(work_id, x_id, score)
\* (for keywords and sdgs, inside `if x.get('id')`)
ScoredCalls(work_id, xs, kind, needsId) ==
    Flatten([i \in 1..Len(xs) |->
        LET kx == kind \o ToString(i)
        IN IF needsId /\ ~Truthy(xs[i].id) THEN <<>>
           ELSE <<Call("insert_" \o kind, kx, "work", xs[i]),
                  Call("link_" \o kind \o "_to_work", kx \o ".link", kx,
                       [work_id |-> work_id, id |-> xs[i].id,
                        score |-> xs[i].score])>>])

\* for location in locations: if location.get('source_id'): insert_source(...)
\*                            insert_location(...)
LocationCalls(work_id, locations) ==
    Flatten([i \in 1..Len(locations) |->
        LET kl == "location" \o ToString(i)
        IN (IF Truthy(locations[i].source_id)
            THEN <<Call("insert_source", kl \o ".source", "work",
                        [id |-> locations[i].source_id, display_name |-> Null,
                         issn_l |-> Null, type |-> Null])>>
            ELSE <<>>)
           \o <<Call("insert_location", kl, "work",
                     [work_id |-> work_id, location |-> locations[i]])>>])

\* one call of insert_<kind> per element of xs
PlainCalls(work_id, xs, kind) ==
    [i \in 1..Len(xs) |->
        Call("insert_" \o kind, kind \o ToString(i), "work",
             [work_id |-> work_id, x |-> xs[i]])]

\* the calls cs made with what an extractor returned, or the exception it
\* raised
Phase(kind, extracted, cs) ==
    IF ~extracted.ok THEN <<RaiseAt(kind, "work")>> ELSE cs

ItemCalls(item) ==
    LET work == extract_work_data(item)
    IN IF ~work.ok THEN <<RaiseAt("work", "")>>
       ELSE
       LET wid == work.val.id
           ids == extract_ids(item)
           authors == extract_authors(item)
           concepts == extract_concepts(item)
           topics == extract_topics(item)
           locations == extract_locations(item)
           references == extract_references(item)
           grants == extract_grants(item)
           keywords == extract_keywords(item)
           sdgs == extract_sdgs(item)
       IN <<Call("insert_work", "work", "", work.val)>>
          \o Phase("ids", ids,
                   <<Call("insert_work_ids", "ids", "work",
                          [work_id |-> wid, ids |-> ids.val])>>)
          \o Phase("authors", authors, AuthorCalls(wid, authors.val))
          \o Phase("concepts", concepts,
                   ScoredCalls(wid, concepts.val, "concept", FALSE))
          \o Phase("topics", topics, ScoredCalls(wid, topics.val, "topic", FALSE))
          \o Phase("locations", locations, LocationCalls(wid, locations.val))
          \o Phase("references", references,
                   PlainCalls(wid, references.val, "reference"))
          \o Phase("grants", grants, PlainCalls(wid, grants.val, "grant"))
          \o Phase("keywords", keywords,
                   ScoredCalls(wid, keywords.val, "keyword", TRUE))
          \o Phase("sdgs", sdgs, ScoredCalls(wid, sdgs.val, "sdg", TRUE))

(***************************************************************************)
(* The relational store.  A table is the sequence of its rows in insertion *)
(* order; a column holds the string SqlVal gives ("NULL" for NULL).        *)
(* openalex.works and openalex.work_ids, which the code writes with        *)
(* ON CONFLICT on their key, are maps from the key to the row.             *)
(***************************************************************************)
EmptyMap == [k \in {} |-> "NULL"]

EmptyDb ==
    [works |-> EmptyMap, work_ids |-> EmptyMap,
     authors |-> <<>>, work_authors |-> <<>>,
     institutions |-> <<>>, author_institutions |-> <<>>,
     concepts |-> <<>>, work_concepts |-> <<>>,
     topics |-> <<>>, work_topics |-> <<>>,
     sources |-> <<>>, locations |-> <<>>,
     referenced_works |-> <<>>, grants |-> <<>>,
     keywords |-> <<>>, work_keywords |-> <<>>,
     sdgs |-> <<>>, work_sdgs |-> <<>>,
     cross_exists |-> FALSE, cross |-> {}]

Put(map, k, row) ==
    [x \in DOMAIN map \cup {k} |-> IF x = k THEN row ELSE map[x]]

\* SELECT ... WHERE the columns key equal those of row: the rows found
Selected(tbl, key, row) ==
    {i \in 1..Len(tbl) : \A c \in key : tbl[i][c] = row[c]}

\* the check-then-write of the insert_ and link_ functions: UPDATE the rows
\* the SELECT found (row i becomes updated[i]), else INSERT row
CheckThenWrite(tbl, key, row, updated) ==
    IF Selected(tbl, key, row) = {} THEN Append(tbl, row)
    ELSE [i \in 1..Len(tbl) |->
             IF i \in Selected(tbl, key, row) THEN updated[i] ELSE tbl[i]]

\* ... UPDATE every other column to that of row
CheckThenUpdate(tbl, key, row) ==
    CheckThenWrite(tbl, key, row, [i \in 1..Len(tbl) |-> row])

\* an INSERT without ON CONFLICT
CheckThenInsert_always(tbl, key, row) == Append(tbl, row)

\* ... no UPDATE
CheckThenInsert(tbl, key, row) == CheckThenWrite(tbl, key, row, tbl)

\* insert_work with `if value:` for `if value is not None:`
WorkGiven_truthy(work) == {c \in DOMAIN work : Truthy(work[c])}

\* insert_work: the columns whose value is not None
WorkGiven(work) == {c \in DOMAIN work : work[c] # Null}

\* INSERT INTO openalex.works () VALUES () is a syntax error, and the key of
\* ON CONFLICT (id) cannot be NULL
WorkStatementValid(work) == WorkGiven(work) # {} /\ work.id # Null

insert_work(db, work) ==
    LET id == SqlVal(work.id)
        row == [c \in DOMAIN work |->
                   IF c \in WorkGiven(work) THEN SqlVal(work[c])
                   ELSE IF id \in DOMAIN db.works THEN db.works[id][c]
                   ELSE "NULL"]
    IN [db EXCEPT !.works = Put(db.works, id, row)]

\* insert_work_ids: the first n statements of the loop
RECURSIVE WorkIdsAfter(_, _, _, _)
WorkIdsAfter(work_ids, work_id, ids, n) ==
    IF n = 0 THEN work_ids
    ELSE Put(WorkIdsAfter(work_ids, work_id, ids, n - 1),
             <<SqlVal(work_id), ids[n].id_type>>, SqlVal(ids[n].id_value))

insert_work_ids(db, a) ==
    [db EXCEPT !.work_ids = WorkIdsAfter(db.work_ids, a.work_id, a.ids, Len(a.ids))]

insert_author(db, author) ==
    LET row == [id |-> SqlVal(author.author_id),
                display_name |-> SqlVal(author.display_name),
                orcid |-> SqlVal(author.orcid)]
    IN [db EXCEPT !.authors =
           CheckThenUpdate(db.authors, {"id"}, row)]

\* link_author_to_work without its SELECT: always INSERT
link_author_to_work_insert(db, a) ==
    [db EXCEPT !.work_authors =
        Append(@, [work_id |-> SqlVal(a.work_id),
                   author_id |-> SqlVal(a.author_id),
                   author_position |-> SqlVal(a.author_position),
                   is_corresponding |-> SqlVal(a.is_corresponding),
                   raw_author_name |-> SqlVal(a.raw_author_name)])]

link_author_to_work(db, a) ==
    LET row == [work_id |-> SqlVal(a.work_id),
                author_id |-> SqlVal(a.author_id),
                author_position |-> SqlVal(a.author_position),
                is_corresponding |-> SqlVal(a.is_corresponding),
                raw_author_name |-> SqlVal(a.raw_author_name)]
    IN [db EXCEPT !.work_authors =
           CheckThenUpdate(db.work_authors, {"work_id", "author_id"}, row)]

insert_institution(db, institution) ==
    LET row == [id |-> SqlVal(institution.id),
                display_name |-> SqlVal(institution.display_name),
                ror |-> SqlVal(institution.ror),
                country_code |-> SqlVal(institution.country_code),
                type |-> SqlVal(institution.type)]
    IN [db EXCEPT !.institutions =
           CheckThenUpdate(db.institutions, {"id"}, row)]

\* if cur.rowcount == 0: INSERT
link_author_to_institution(db, a) ==
    LET row == [work_id |-> SqlVal(a.work_id),
                author_id |-> SqlVal(a.author_id),
                institution_id |-> SqlVal(a.institution_id)]
    IN [db EXCEPT !.author_institutions =
           CheckThenInsert(db.author_institutions,
                           {"work_id", "author_id", "institution_id"}, row)]

insert_concept(db, concept) ==
    LET row == [id |-> SqlVal(concept.id),
                display_name |-> SqlVal(concept.display_name),
                wikidata |-> SqlVal(concept.wikidata),
                level |-> SqlVal(concept.level)]
    IN [db EXCEPT !.concepts =
           CheckThenUpdate(db.concepts, {"id"}, row)]

\* link_concept_to_work, link_topic_to_work, link_keyword_to_work and
\* link_sdg_to_work: UPDATE score when the SELECT found the pair, else INSERT
ScoredLink(tbl, a) ==
    LET row == [work_id |-> SqlVal(a.work_id), id |-> SqlVal(a.id),
                score |-> SqlVal(a.score)]
    IN CheckThenUpdate(tbl, {"work_id", "id"}, row)

link_concept_to_work(db, a) ==
    [db EXCEPT !.work_concepts = ScoredLink(db.work_concepts, a)]

insert_topic(db, topic) ==
    LET row == [c \in DOMAIN topic \ {"score"} |-> SqlVal(topic[c])]
    IN [db EXCEPT !.topics =
           CheckThenUpdate(db.topics, {"id"}, row)]

link_topic_to_work(db, a) ==
    [db EXCEPT !.work_topics = ScoredLink(db.work_topics, a)]

\* a plain INSERT ... RETURNING id
insert_location(db, a) ==
    LET l == a.location
    IN [db EXCEPT !.locations =
           Append(db.locations,
                  [work_id |-> SqlVal(a.work_id),
                   source_id |-> SqlVal(l.source_id),
                   is_oa |-> SqlVal(l.is_oa),
                   landing_page_url |-> SqlVal(l.landing_page_url),
                   pdf_url |-> SqlVal(l.pdf_url),
                   license |-> SqlVal(l.license),
                   version |-> SqlVal(l.version),
                   is_accepted |-> SqlVal(l.is_accepted),
                   is_published |-> SqlVal(l.is_published)])]

\* COALESCE(%s, column) taken as the new value
Coalesce_new(new, old) == new

\* COALESCE(%s, column)
Coalesce(new, old) == IF new # "NULL" THEN new ELSE old

insert_source(db, source) ==
    LET row == [id |-> SqlVal(source.id),
                display_name |-> SqlVal(source.display_name),
                issn_l |-> SqlVal(source.issn_l),
                type |-> SqlVal(source.type)]
        updates == Truthy(source.display_name) \/ Truthy(source.issn_l)
                   \/ Truthy(source.type)
    IN [db EXCEPT !.sources =
           CheckThenWrite(db.sources, {"id"}, row,
                          [i \in 1..Len(db.sources) |->
                              IF updates
                              THEN [c \in DOMAIN row |->
                                       Coalesce(row[c], db.sources[i][c])]
                              ELSE db.sources[i]])]

\* ON CONFLICT (work_id, referenced_work_id) DO NOTHING
insert_reference(db, a) ==
    LET row == [work_id |-> SqlVal(a.work_id),
                referenced_work_id |-> SqlVal(a.x)]
    IN [db EXCEPT !.referenced_works =
           CheckThenInsert(db.referenced_works,
                           {"work_id", "referenced_work_id"}, row)]

\* a plain INSERT ... RETURNING id
insert_grant(db, a) ==
    [db EXCEPT !.grants =
        Append(db.grants,
               [work_id |-> SqlVal(a.work_id),
                funder |-> SqlVal(a.x.funder),
                funder_display_name |-> SqlVal(a.x.funder_display_name),
                award_id |-> SqlVal(a.x.award_id)])]

insert_keyword(db, keyword) ==
    LET row == [id |-> SqlVal(keyword.id),
                display_name |-> SqlVal(keyword.display_name)]
    IN [db EXCEPT !.keywords =
           CheckThenUpdate(db.keywords, {"id"}, row)]

link_keyword_to_work(db, a) ==
    [db EXCEPT !.work_keywords = ScoredLink(db.work_keywords, a)]

insert_sdg(db, sdg) ==
    LET row == [id |-> SqlVal(sdg.id),
                display_name |-> SqlVal(sdg.display_name)]
    IN [db EXCEPT !.sdgs =
           CheckThenUpdate(db.sdgs, {"id"}, row)]

link_sdg_to_work(db, a) ==
    [db EXCEPT !.work_sdgs = ScoredLink(db.work_sdgs, a)]

(***************************************************************************)
(* clean_db_tables: the effect of its transaction when it commits.         *)
(* TRUNCATE ... CASCADE also empties the tables that reference the         *)
(* truncated one; openalex.sources references none of them.                *)
(***************************************************************************)
CleanedDb(db) ==
    [EmptyDb EXCEPT !.sources = db.sources, !.cross_exists = db.cross_exists]

(***************************************************************************)
(* extract_raw_json_records: the ids of the first batch_size rows          *)
(* WHERE NOT processed ORDER BY id.                                        *)
(***************************************************************************)
RECURSIVE Ascending(_)
Ascending(ids) ==
    IF ids = {} THEN <<>>
    ELSE LET m == CHOOSE x \in ids : \A y \in ids : x <= y
         IN <<m>> \o Ascending(ids \ {m})

Limit(seq, n) == SubSeq(seq, 1, IF Len(seq) < n THEN Len(seq) ELSE n)

\* extract_raw_json_records without WHERE NOT processed
extract_raw_json_records_all(flags, batch_size) ==
    Limit(Ascending(DOMAIN flags), batch_size)

\* extract_raw_json_records without LIMIT
extract_raw_json_records_unlimited(flags, batch_size) ==
    Ascending({d \in DOMAIN flags : ~flags[d]})

extract_raw_json_records(flags, batch_size) ==
    Limit(Ascending({d \in DOMAIN flags : ~flags[d]}), batch_size)

\* mark_record_processed with SET processed = (id = record_id) and no WHERE
mark_record_processed_only(flags, record_id) ==
    [d \in DOMAIN flags |-> d = record_id]

\* mark_record_processed: UPDATE ... SET processed = TRUE WHERE id = record_id
mark_record_processed(flags, record_id) == [flags EXCEPT ![record_id] = TRUE]

(***************************************************************************)
(* State.                                                                  *)
(***************************************************************************)
VARIABLES
    json_content,     \* openalex.raw_json: id -> text
    processed,        \* openalex.raw_json: id -> processed
    db,               \* the derived tables
    aborted,          \* the connection's transaction is in the failed state
    pc,               \* where main is
    run,              \* the number of this run of main
    faults,           \* faults injected so far
    batch_size,       \* --batch-size of this run
    records,          \* process_json_records: the batch in hand
    ri,               \* index in records of the record in hand
    ii,               \* index in items of the item in hand
    oi,               \* index in ItemCalls of the next call
    calls,            \* the calls of each item of the record in hand
    rets,             \* what the calls made for the item in hand returned
    total_processed, total_success, batch_success,
    cleaned,          \* what clean_db_tables returned in this run
    hist,             \* history kept for stating the properties
    last,             \* the last store call and how it ended
    unit              \* a function called on its own: its inputs and results

vars == <<json_content, processed, db, aborted, pc, run, faults, batch_size,
          records, ri, ii, oi, calls, rets, total_processed, total_success,
          batch_success, cleaned, hist, last, unit>>

DocIds == 1..NDocs

\* the stores: NDocs consecutive texts of Texts, from any starting place
Stores ==
    {[d \in DocIds |-> Texts[((d + k - 1) % Len(Texts)) + 1]] :
        k \in 0..(Len(Texts) - 1)}

(***************************************************************************)
(* History of the run, read by the properties only:                       *)
(*   todo      the documents not processed when the batch loop was entered *)
(*   rounds    the batches the fetches of this run returned, in order      *)
(*             (the last, empty one left out)                              *)
(*   failed    a statement of the batch loop has raised in this run        *)
(*   reset     the documents whose flag clean_db_tables took back to false *)
(*   crashedOn the document in hand when the process stopped between its   *)
(*             first write and its mark (0: none)                          *)
(*   passed    document -> the numbers of relation rows of its works at    *)
(*             the end of its first and of its latest pass                 *)
(*   bootstrap what ensure_table_structure returned in this run            *)
(*   loaded    the documents for a work of which insert_work returned True *)
(*             in this run                                                 *)
(*   post      what became of the matching script in this run              *)
(***************************************************************************)
NoHist ==
    [todo |-> {}, rounds |-> <<>>, failed |-> FALSE, reset |-> {},
     crashedOn |-> 0, passed |-> [d \in DocIds |-> <<>>],
     bootstrap |-> "not run", loaded |-> {}, post |-> "none"]

RelationKinds ==
    {"work_authors", "author_institutions", "work_concepts", "work_topics",
     "work_keywords", "work_sdgs", "locations", "referenced_works", "grants"}

\* the number of rows of each relation table about the works wids
RelCounts(d, wids) ==
    [k \in RelationKinds |->
        Cardinality({i \in 1..Len(d[k]) : d[k][i].work_id \in wids})]

\* the works of the items whose calls are cs
WorksOf(cs) == {SqlVal(cs[i][1].a.id) : i \in {j \in 1..Len(cs) : cs[j][1].f = "insert_work"}}

\* the first and the latest of the counts taken
Snap(counts, c) == IF Len(counts) < 2 THEN Append(counts, c) ELSE <<counts[1], c>>

\* no call of the item in hand has returned yet
NoRets == [k \in {} |-> Null]

NoCall == [f |-> "none", ok |-> TRUE, n |-> 0]

\* no function is called on its own
NoUnit == [f |-> "none", args |-> <<>>]

Init ==
    /\ json_content \in Stores
    /\ processed = [d \in DocIds |-> FALSE]
    /\ db = EmptyDb
    /\ aborted = FALSE
    /\ pc = "connect"
    /\ run = 1
    /\ faults = 0
    /\ batch_size = 1
    /\ records = <<>>
    /\ ri = 0
    /\ ii = 0
    /\ oi = 0
    /\ calls = <<>>
    /\ rets = NoRets
    /\ total_processed = 0
    /\ total_success = 0
    /\ batch_success = 0
    /\ cleaned = "not run"
    /\ hist = NoHist
    /\ last = NoCall
    /\ unit = NoUnit

\* the calls of every item of every text that json.loads accepts
CallsOfText ==
    [text \in {Texts[k] : k \in {j \in 1..Len(Texts) : json_loads(Texts[j]).ok}} |->
        LET items == ItemsOf(json_loads(text).val)
        IN [i \in 1..Len(items) |-> ItemCalls(items[i])]]

\* the record, and the calls of the item and the call in hand
record_id == records[ri]
Calls == calls[ii]
CurCall == calls[ii][oi]

\* a statement may raise while the fault budget lasts
MayFault == faults < MaxFaults

(***************************************************************************)
(* process_json_records: the calls made for one item.                      *)
(***************************************************************************)
\* the calls tested on call g made whatever g returned
Made_untested(rs, g) == g = "" \/ g \in DOMAIN rs

\* the value call g returned is truthy (a call not made returned nothing)
Made(rs, g) == g = "" \/ (g \in DOMAIN rs /\ Truthy(rs[g]))

\* the next call from j on that the code makes, 0 when there is none
RECURSIVE NextCall(_, _, _)
NextCall(cs, rs, j) ==
    IF j > Len(cs) THEN 0
    ELSE IF Made(rs, cs[j].g) THEN j
    ELSE NextCall(cs, rs, j + 1)

\* the call in hand returned ret: go on to the next call of the item; after
\* the last one count the item when insert_work returned True, and go on to
\* the next item, or to mark_record_processed after the last item
Advance(ret, fault) ==
    LET rs == [k \in DOMAIN rets \cup {CurCall.k} |->
                  IF k = CurCall.k THEN ret ELSE rets[k]]
        next == NextCall(Calls, rs, oi + 1)
        success == Made(rs, "work")
        passEnds == next = 0 /\ ii = Len(calls)
    IN /\ UNCHANGED calls
       /\ hist' = [hist EXCEPT
                      !.failed = @ \/ fault,
                      !.loaded = IF CurCall.f = "insert_work" /\ Truthy(ret)
                                 THEN @ \cup {record_id} ELSE @,
                      !.passed = IF passEnds
                                 THEN [@ EXCEPT ![record_id] =
                                          Snap(@, RelCounts(db', WorksOf(calls)))]
                                 ELSE @]
       /\ IF next # 0
          THEN /\ pc' = "item"
               /\ oi' = next
               /\ rets' = rs
               /\ UNCHANGED <<ii, total_success, batch_success>>
          ELSE /\ total_success' = IF success THEN total_success + 1 ELSE total_success
               /\ batch_success' = IF success THEN batch_success + 1 ELSE batch_success
               /\ IF ii < Len(calls)
                  THEN /\ pc' = "item"
                       /\ ii' = ii + 1
                       /\ oi' = 1
                       /\ rets' = NoRets
                  ELSE /\ pc' = "mark"
                       /\ rets' = rs
                       /\ UNCHANGED <<ii, oi>>

\* how a statement of an insert_ or link_ function can end: it raises when
\* the transaction is in the failed state or the statement is not valid, and
\* it may raise for a reason of the store's
Outcomes(valid) ==
    IF aborted \/ ~valid THEN {"raises"}
    ELSE IF MayFault THEN {"commits", "fault"} ELSE {"commits"}

\* one insert_ or link_ function: try: execute; commit; return okRet
\* except: rollback; log; return failRet
StoreCall(f, valid, newDb, okRet, failRet) ==
    /\ pc = "item"
    /\ CurCall.f = f
    /\ \E outcome \in Outcomes(valid) :
          /\ db' = IF outcome = "commits" THEN newDb ELSE db
          /\ faults' = IF outcome = "fault" THEN faults + 1 ELSE faults
          /\ last' = [f |-> f, ok |-> outcome = "commits", n |-> 0]
          /\ Advance(IF outcome = "commits" THEN okRet ELSE failRet,
                     outcome = "fault")
    /\ aborted' = FALSE
    /\ UNCHANGED <<unit, json_content, processed, run, batch_size, records, ri,
                   total_processed, cleaned>>

\* an insert_ function of an entity: return None at once when the id is
\* None, else check, write and return the id
EntityCall(f, id, newDb) ==
    /\ pc = "item"
    /\ CurCall.f = f
    /\ IF id = Null
       THEN /\ UNCHANGED <<unit, json_content, processed, db, aborted, run, faults,
                           batch_size, records, ri, total_processed, cleaned,
                           last>>
            /\ Advance(Null, FALSE)
       ELSE StoreCall(f, TRUE, newDb, id, Null)

InsertWork ==
    StoreCall("insert_work", WorkStatementValid(CurCall.a),
              insert_work(db, CurCall.a), Bool(TRUE), Bool(FALSE))

\* the loop of insert_work_ids runs in one transaction: when statement n + 1
\* raises (or the commit, for n = Len(ids)), the n executed are rolled back
InsertWorkIds ==
    /\ pc = "item"
    /\ CurCall.f = "insert_work_ids"
    /\ \E outcome \in Outcomes(TRUE) :
          /\ db' = IF outcome = "commits" THEN insert_work_ids(db, CurCall.a) ELSE db
          /\ faults' = IF outcome = "fault" THEN faults + 1 ELSE faults
          /\ \E n \in 0..Len(CurCall.a.ids) :
                /\ outcome = "commits" => n = Len(CurCall.a.ids)
                /\ outcome = "raises" => n = 0
                /\ last' = [f |-> "insert_work_ids", ok |-> outcome = "commits",
                            n |-> n]
          /\ Advance(Bool(outcome = "commits"), outcome = "fault")
    /\ aborted' = FALSE
    /\ UNCHANGED <<unit, json_content, processed, run, batch_size, records, ri,
                   total_processed, cleaned>>

InsertAuthor ==
    EntityCall("insert_author", CurCall.a.author_id, insert_author(db, CurCall.a))

LinkAuthorToWork ==
    StoreCall("link_author_to_work", TRUE, link_author_to_work(db, CurCall.a),
              Bool(TRUE), Bool(FALSE))

InsertInstitution ==
    EntityCall("insert_institution", CurCall.a.id, insert_institution(db, CurCall.a))

LinkAuthorToInstitution ==
    StoreCall("link_author_to_institution", TRUE,
              link_author_to_institution(db, CurCall.a), Bool(TRUE), Bool(FALSE))

InsertConcept ==
    EntityCall("insert_concept", CurCall.a.id, insert_concept(db, CurCall.a))

LinkConceptToWork ==
    StoreCall("link_concept_to_work", TRUE, link_concept_to_work(db, CurCall.a),
              Bool(TRUE), Bool(FALSE))

InsertTopic ==
    EntityCall("insert_topic", CurCall.a.id, insert_topic(db, CurCall.a))

LinkTopicToWork ==
    StoreCall("link_topic_to_work", TRUE, link_topic_to_work(db, CurCall.a),
              Bool(TRUE), Bool(FALSE))

InsertSource ==
    EntityCall("insert_source", CurCall.a.id, insert_source(db, CurCall.a))

\* returns the new row's id, a positive number
InsertLocation ==
    StoreCall("insert_location", TRUE, insert_location(db, CurCall.a),
              Num(Len(db.locations) + 1), Null)

InsertReference ==
    StoreCall("insert_reference", TRUE, insert_reference(db, CurCall.a),
              Bool(TRUE), Bool(FALSE))

InsertGrant ==
    StoreCall("insert_grant", TRUE, insert_grant(db, CurCall.a),
              Num(Len(db.grants) + 1), Null)

InsertKeyword ==
    EntityCall("insert_keyword", CurCall.a.id, insert_keyword(db, CurCall.a))

LinkKeywordToWork ==
    StoreCall("link_keyword_to_work", TRUE, link_keyword_to_work(db, CurCall.a),
              Bool(TRUE), Bool(FALSE))

InsertSdg ==
    EntityCall("insert_sdg", CurCall.a.id, insert_sdg(db, CurCall.a))

LinkSdgToWork ==
    StoreCall("link_sdg_to_work", TRUE, link_sdg_to_work(db, CurCall.a),
              Bool(TRUE), Bool(FALSE))

\* a statement of the item's handling raises: on to `except Exception`
RaiseInItem ==
    /\ pc = "item"
    /\ CurCall.f = "raise"
    /\ pc' = "except"
    /\ UNCHANGED <<unit, json_content, processed, db, aborted, run, faults,
                   batch_size, records, ri, ii, oi, calls, rets, total_processed,
                   total_success, batch_success, cleaned, hist, last>>

(***************************************************************************)
(* process_json_records: the loop over the batches and their records.      *)
(***************************************************************************)
\* records = extract_raw_json_records(conn, batch_size); if not records: break
\* The SELECT raises when the transaction is in the failed state, and nothing
\* in process_json_records catches it: main logs it and exits with status 1.
Fetch ==
    /\ pc = "fetch"
    /\ IF aborted
       THEN /\ pc' = "fatal"
            /\ UNCHANGED <<records, ri, batch_success, hist>>
       ELSE LET batch == extract_raw_json_records(processed, batch_size)
            IN /\ records' = batch
               /\ hist' = [hist EXCEPT !.rounds = IF batch = <<>> THEN @
                                                   ELSE Append(@, batch)]
               /\ IF batch = <<>>
                  THEN pc' = "returned" /\ ri' = 0
                  ELSE pc' = "record" /\ ri' = 1
               /\ batch_success' = 0
    /\ calls' = <<>>
    /\ rets' = NoRets
    /\ UNCHANGED <<unit, json_content, processed, db, aborted, run, faults,
                   batch_size, ii, oi, total_processed, total_success,
                   cleaned, last>>

\* for record_id, json_content in records: the None test, json.loads and
\* the choice of items
LoadRecord ==
    /\ pc = "record"
    /\ LET text == json_content[record_id]
       IN IF text = NoneText \/ ~json_loads(text).ok
          THEN pc' = "mark_early" /\ UNCHANGED <<ii, oi, calls, rets>>
          ELSE IF CallsOfText[text] = <<>>
               THEN pc' = "mark" /\ UNCHANGED <<ii, oi, calls, rets>>
               ELSE /\ pc' = "item"
                    /\ ii' = 1
                    /\ oi' = 1
                    /\ calls' = CallsOfText[text]
                    /\ rets' = NoRets
    /\ UNCHANGED <<unit, json_content, processed, db, aborted, run, faults,
                   batch_size, records, ri, total_processed, total_success,
                   batch_success, cleaned, hist, last>>

\* the end of the loop body: the next record of the batch, or the next fetch
NextRecord ==
    /\ IF ri < Len(records)
       THEN pc' = "record" /\ ri' = ri + 1
       ELSE pc' = "fetch" /\ ri' = 0
    /\ ii' = 0
    /\ oi' = 0
    /\ calls' = <<>>
    /\ rets' = NoRets

\* how a call of mark_record_processed can end.  It has no except clause of
\* its own: when its UPDATE raises, the transaction stays in the failed state
MarkOutcomes ==
    IF aborted THEN {"raises"}
    ELSE IF MayFault THEN {"commits", "update raises", "commit raises"}
    ELSE {"commits"}

MarkCall(outcome) ==
    /\ processed' = IF outcome = "commits"
                    THEN mark_record_processed(processed, record_id)
                    ELSE processed
    /\ aborted' = (aborted \/ outcome = "update raises")
    /\ faults' = IF outcome \in {"update raises", "commit raises"}
                 THEN faults + 1 ELSE faults
    /\ hist' = [hist EXCEPT !.failed = @ \/ outcome # "commits"]
    /\ last' = [f |-> "mark_record_processed", ok |-> outcome = "commits", n |-> 0]

\* mark_record_processed(conn, record_id); total_processed += 1
MarkProcessed ==
    /\ pc = "mark"
    /\ \E outcome \in MarkOutcomes :
          /\ MarkCall(outcome)
          /\ IF outcome = "commits"
             THEN /\ total_processed' = total_processed + 1
                  /\ NextRecord
             ELSE /\ pc' = "except"
                  /\ UNCHANGED <<ri, ii, oi, calls, rets, total_processed>>
    /\ UNCHANGED <<unit, json_content, db, run, batch_size, records, total_success,
                   batch_success, cleaned>>

\* a None or undecodable json_content: mark_record_processed(...); continue
MarkUnreadable ==
    /\ pc = "mark_early"
    /\ \E outcome \in MarkOutcomes :
          /\ MarkCall(outcome)
          /\ IF outcome = "commits"
             THEN NextRecord
             ELSE pc' = "except" /\ UNCHANGED <<ri, ii, oi, calls, rets>>
    /\ UNCHANGED <<unit, json_content, db, run, batch_size, records,
                   total_processed, total_success, batch_success, cleaned>>

\* except Exception: try: mark_record_processed(...) except: log
\*                   total_processed += 1
HandleException ==
    /\ pc = "except"
    /\ \E outcome \in MarkOutcomes : MarkCall(outcome)
    /\ total_processed' = total_processed + 1
    /\ NextRecord
    /\ UNCHANGED <<unit, json_content, db, run, batch_size, records, total_success,
                   batch_success, cleaned>>

(***************************************************************************)
(* main: --clean, the batch loop unless --only-match, the matching script  *)
(* unless --no-match, the statistics.                                      *)
(***************************************************************************)
loopLocals == <<batch_size, records, ri, ii, oi, calls, rets, total_processed,
                total_success, batch_success>>

\* conn = psycopg2.connect(...): an exception here is caught by the except
\* clause of main, which logs it and exits with status 1
Connect ==
    /\ pc = "connect"
    /\ \E outcome \in {"connects"} \cup (IF MayFault THEN {"raises"} ELSE {}) :
          /\ faults' = IF outcome = "raises" THEN faults + 1 ELSE faults
          /\ pc' = IF outcome = "raises" THEN "refused" ELSE "ensure"
    /\ UNCHANGED <<unit, json_content, processed, db, aborted, run, loopLocals,
                   cleaned, hist, last>>

\* ensure_table_structure(conn, logfile): try: conn.commit(); return True
\* except: conn.rollback(); log; return False.  main does not read what it
\* returns.
EnsureTableStructure ==
    /\ pc = "ensure"
    /\ \E outcome \in {"commits"} \cup (IF MayFault THEN {"raises"} ELSE {}) :
          /\ faults' = IF outcome = "raises" THEN faults + 1 ELSE faults
          /\ hist' = [hist EXCEPT !.bootstrap =
                         IF outcome = "raises" THEN "False" ELSE "True"]
    /\ pc' = "start"
    /\ UNCHANGED <<unit, json_content, processed, db, aborted, run, loopLocals,
                   cleaned, last>>

\* if args.clean: clean_db_tables(conn, logfile).  Its statements run in one
\* transaction.  The TRUNCATE of "cross".gup2openalex has a try of its own:
\* when that table does not exist the statement raises, the transaction is in
\* the failed state, and conn.commit() ends it without an error and without
\* effect.  A statement that raises outside that try is rolled back.
Clean ==
    /\ pc = "start"
    /\ \E outcome \in {"commit"} \cup (IF MayFault THEN {"raises"} ELSE {}) :
          /\ faults' = IF outcome = "raises" THEN faults + 1 ELSE faults
          /\ cleaned' = IF outcome = "raises" THEN "False" ELSE "True"
          /\ IF outcome = "commit" /\ db.cross_exists
             THEN /\ processed' = [d \in DocIds |-> FALSE]
                  /\ db' = CleanedDb(db)
                  /\ hist' = [hist EXCEPT !.reset = @ \cup {d \in DocIds : processed[d]}]
             ELSE UNCHANGED <<processed, db, hist>>
          /\ last' = [f |-> "clean_db_tables",
                      ok |-> outcome = "commit" /\ db.cross_exists, n |-> 0]
    /\ pc' = "process"
    /\ UNCHANGED <<unit, json_content, aborted, run, loopLocals>>

\* not args.clean
SkipClean ==
    /\ pc = "start"
    /\ pc' = "process"
    /\ UNCHANGED <<unit, json_content, processed, db, aborted, run, faults,
                   loopLocals, cleaned, hist, last>>

\* process_json_records with total_processed started at the number of
\* documents already processed
EnterLoop_counting_processed ==
    /\ pc = "process"
    /\ \E b \in 1..MaxBatch : batch_size' = b
    /\ pc' = "fetch"
    /\ total_processed' = Cardinality({d \in DocIds : processed[d]})
    /\ total_success' = 0
    /\ hist' = [hist EXCEPT !.todo = {d \in DocIds : ~processed[d]}]
    /\ UNCHANGED <<unit, json_content, processed, db, aborted, run, faults, records,
                   ri, ii, oi, calls, rets, batch_success, cleaned, last>>

\* if not args.only_match: process_json_records(conn, logfile, args.batch_size)
EnterLoop ==
    /\ pc = "process"
    /\ \E b \in 1..MaxBatch : batch_size' = b
    /\ pc' = "fetch"
    /\ total_processed' = 0
    /\ total_success' = 0
    /\ hist' = [hist EXCEPT !.todo = {d \in DocIds : ~processed[d]}]
    /\ UNCHANGED <<unit, json_content, processed, db, aborted, run, faults, records,
                   ri, ii, oi, calls, rets, batch_success, cleaned, last>>

\* args.only_match
SkipLoop ==
    /\ pc = "process"
    /\ pc' = "skipped"
    /\ UNCHANGED <<unit, json_content, processed, db, aborted, run, faults,
                   loopLocals, cleaned, hist, last>>

\* what the matching script writes: a row of "cross".gup2openalex for the
\* works it matches (here: every work of openalex.works)
matching_script(d) == [d EXCEPT !.cross = d.cross \cup DOMAIN d.works]

\* run_matching_script: CREATE TABLE IF NOT EXISTS in a transaction of its
\* own, rolled back and logged when it raises; then the script in one
\* transaction; then the SELECT of the matches per round.  An exception of
\* the script or of the SELECT is rolled back and logged, and the function
\* returns False.  The script raises when the table it writes does not exist.
RunMatching_undoing_loads ==
    /\ pc \in {"returned", "skipped"}
    /\ \E outcome \in {"commits"}
                      \cup (IF MayFault
                            THEN {"create raises", "script raises", "select raises"}
                            ELSE {}) :
          LET created == [db EXCEPT !.cross_exists =
                             db.cross_exists \/ outcome # "create raises"]
              written == outcome # "script raises" /\ created.cross_exists
              ok == written /\ outcome # "select raises"
          IN /\ db' = IF written THEN matching_script(created)
                      ELSE CleanedDb(created)
             /\ faults' = IF outcome = "commits" THEN faults ELSE faults + 1
             /\ last' = [f |-> "run_matching_script", ok |-> ok, n |-> 0]
    /\ hist' = [hist EXCEPT !.post = "ran"]
    /\ pc' = "stats"
    /\ UNCHANGED <<unit, json_content, processed, aborted, run, loopLocals, cleaned>>

RunMatching ==
    /\ pc \in {"returned", "skipped"}
    /\ \E outcome \in {"commits"}
                      \cup (IF MayFault
                            THEN {"create raises", "script raises", "select raises"}
                            ELSE {}) :
          LET created == [db EXCEPT !.cross_exists =
                             db.cross_exists \/ outcome # "create raises"]
              written == outcome # "script raises" /\ created.cross_exists
              ok == written /\ outcome # "select raises"
          IN /\ db' = IF written THEN matching_script(created) ELSE created
             /\ faults' = IF outcome = "commits" THEN faults ELSE faults + 1
             /\ last' = [f |-> "run_matching_script", ok |-> ok, n |-> 0]
    /\ hist' = [hist EXCEPT !.post = "ran"]
    /\ pc' = "stats"
    /\ UNCHANGED <<unit, json_content, processed, aborted, run, loopLocals, cleaned>>

\* args.no_match
SkipMatching ==
    /\ pc \in {"returned", "skipped"}
    /\ hist' = [hist EXCEPT !.post = "disabled"]
    /\ pc' = "stats"
    /\ UNCHANGED <<unit, json_content, processed, db, aborted, run, faults,
                   loopLocals, cleaned, last>>

\* not args.no_match, and os.path.exists(match_script) is false
NoScript ==
    /\ pc \in {"returned", "skipped"}
    /\ hist' = [hist EXCEPT !.post = "no script"]
    /\ pc' = "stats"
    /\ UNCHANGED <<unit, json_content, processed, db, aborted, run, faults,
                   loopLocals, cleaned, last>>

\* the statistics: four SELECT COUNT(*), one more in a try of its own,
\* conn.close().  An exception of one of the four is caught by the except
\* clause of main, which logs it and exits with status 1.
Statistics ==
    /\ pc = "stats"
    /\ \E outcome \in {"reports"} \cup (IF MayFault THEN {"raises"} ELSE {}) :
          /\ faults' = IF outcome = "raises" THEN faults + 1 ELSE faults
          /\ pc' = IF outcome = "raises" THEN "unreported" ELSE "exit"
    /\ UNCHANGED <<unit, json_content, processed, db, aborted, run, loopLocals,
                   cleaned, hist, last>>

(***************************************************************************)
(* The process can stop at any point of the batch loop, and main can be    *)
(* run again once it has ended.                                            *)
(***************************************************************************)
InLoop == pc \in {"fetch", "record", "item", "mark", "mark_early", "except"}

\* sys.exit(1): no connection, an exception out of the batch loop, an
\* exception of the statistics
ExitedNonZero == pc \in {"refused", "fatal", "unreported"}

Crash ==
    /\ InLoop
    /\ MayFault
    /\ faults' = faults + 1
    /\ pc' = "crashed"
    /\ aborted' = FALSE
    /\ hist' = [hist EXCEPT !.crashedOn =
                   IF pc \in {"item", "mark"} /\ (ii > 1 \/ rets # NoRets)
                   THEN record_id ELSE 0]
    /\ UNCHANGED <<unit, json_content, processed, db, run, loopLocals, cleaned, last>>

Restart ==
    /\ (pc \in {"exit", "crashed"} \/ ExitedNonZero)
    /\ run < MaxRuns
    /\ run' = run + 1
    /\ pc' = "connect"
    /\ aborted' = FALSE
    /\ batch_size' = 1
    /\ records' = <<>>
    /\ ri' = 0
    /\ ii' = 0
    /\ oi' = 0
    /\ calls' = <<>>
    /\ rets' = NoRets
    /\ total_processed' = 0
    /\ total_success' = 0
    /\ batch_success' = 0
    /\ cleaned' = "not run"
    /\ hist' = [hist EXCEPT !.todo = {}, !.rounds = <<>>, !.failed = FALSE,
                             !.crashedOn = IF pc = "crashed" THEN @ ELSE 0,
                             !.bootstrap = "not run", !.loaded = {},
                             !.post = "none"]
    /\ last' = NoCall
    /\ UNCHANGED <<unit, json_content, processed, db, faults>>

ItemStep ==
    \/ InsertWork \/ InsertWorkIds
    \/ InsertAuthor \/ LinkAuthorToWork
    \/ InsertInstitution \/ LinkAuthorToInstitution
    \/ InsertConcept \/ LinkConceptToWork
    \/ InsertTopic \/ LinkTopicToWork
    \/ InsertSource \/ InsertLocation
    \/ InsertReference \/ InsertGrant
    \/ InsertKeyword \/ LinkKeywordToWork
    \/ InsertSdg \/ LinkSdgToWork
    \/ RaiseInItem

LoopStep ==
    \/ Fetch \/ LoadRecord \/ ItemStep
    \/ MarkProcessed \/ MarkUnreadable \/ HandleException

MainStep ==
    \/ Connect \/ EnsureTableStructure
    \/ Clean \/ SkipClean \/ EnterLoop \/ SkipLoop
    \/ RunMatching \/ SkipMatching \/ NoScript \/ Statistics

Next == MainStep \/ LoopStep \/ Crash \/ Restart

Spec == Init /\ [][Next]_vars

(***************************************************************************)
(* The functions of the script called on their own.  main and the batch    *)
(* loop are at rest: only db and unit change.  unit.f is the function      *)
(* called, unit.args the arguments of the calls made so far, in order.     *)
(***************************************************************************)
driver == <<json_content, processed, aborted, pc, run, faults, batch_size,
            records, ri, ii, oi, calls, rets, total_processed, total_success,
            batch_success, cleaned, hist, last>>

AtRest(at) ==
    /\ json_content = [d \in DocIds |-> NoneText]
    /\ processed = [d \in DocIds |-> TRUE]
    /\ aborted = FALSE
    /\ pc = at
    /\ run = 1
    /\ faults = 0
    /\ batch_size = 1
    /\ records = <<>>
    /\ ri = 0
    /\ ii = 0
    /\ oi = 0
    /\ calls = <<>>
    /\ rets = NoRets
    /\ total_processed = 0
    /\ total_success = 0
    /\ batch_success = 0
    /\ cleaned = "not run"
    /\ hist = NoHist
    /\ last = NoCall

(***************************************************************************)
(* The insert_ functions of the entities, called MaxUpserts times on one   *)
(* table with any ids and attributes; every statement commits.             *)
(* unit.before is the store before the last call.                          *)
(***************************************************************************)
MaxUpserts == 2

\* the optional attributes the dict given to each function carries
EntityAttributes ==
    [insert_author |-> {"display_name", "orcid"},
     insert_institution |-> {"display_name", "ror", "country_code", "type"},
     insert_concept |-> {"display_name", "wikidata", "level"},
     insert_topic |-> {"display_name", "subfield_id", "subfield_name",
                       "field_id", "field_name", "domain_id", "domain_name"},
     insert_keyword |-> {"display_name"},
     insert_sdg |-> {"display_name"},
     insert_source |-> {"display_name", "issn_l", "type"}]

\* the table each function writes, and the key of its id in the dict
EntityTable ==
    [insert_author |-> "authors", insert_institution |-> "institutions",
     insert_concept |-> "concepts", insert_topic |-> "topics",
     insert_keyword |-> "keywords", insert_sdg |-> "sdgs",
     insert_source |-> "sources"]

IdKey(f) == IF f = "insert_author" THEN "author_id" ELSE "id"

EntityIds == {Str("E1"), Str("E2")}
AttributeValues == {Null, Str(""), Str("a")}

\* the attribute sets tried: every combination for up to three attributes,
\* else one value for display_name and one for the others
AttributeSets(cols) ==
    IF Cardinality(cols) <= 3 THEN [cols -> AttributeValues]
    ELSE {[c \in cols |-> IF c = "display_name" THEN v[1] ELSE v[2]] :
             v \in AttributeValues \X AttributeValues}

EntityDict(f, id, attrs) ==
    [c \in {IdKey(f)} \cup DOMAIN attrs |-> IF c = IdKey(f) THEN id ELSE attrs[c]]

UpsertInit ==
    /\ AtRest("upsert")
    /\ db = EmptyDb
    /\ unit = [f |-> "none", args |-> <<>>, before |-> EmptyDb]

Upsert(f, arg, newDb) ==
    /\ pc = "upsert"
    /\ unit.f \in {"none", f}
    /\ Len(unit.args) < MaxUpserts
    /\ db' = newDb
    /\ unit' = [f |-> f, args |-> Append(unit.args, arg), before |-> db]
    /\ UNCHANGED driver

UpsertAuthor ==
    \E id \in EntityIds, attrs \in AttributeSets(EntityAttributes.insert_author) :
        LET arg == EntityDict("insert_author", id, attrs)
        IN Upsert("insert_author", arg, insert_author(db, arg))

UpsertInstitution ==
    \E id \in EntityIds, attrs \in AttributeSets(EntityAttributes.insert_institution) :
        LET arg == EntityDict("insert_institution", id, attrs)
        IN Upsert("insert_institution", arg, insert_institution(db, arg))

UpsertConcept ==
    \E id \in EntityIds, attrs \in AttributeSets(EntityAttributes.insert_concept) :
        LET arg == EntityDict("insert_concept", id, attrs)
        IN Upsert("insert_concept", arg, insert_concept(db, arg))

UpsertTopic ==
    \E id \in EntityIds, attrs \in AttributeSets(EntityAttributes.insert_topic) :
        LET arg == EntityDict("insert_topic", id, attrs)
        IN Upsert("insert_topic", arg, insert_topic(db, arg))

UpsertKeyword ==
    \E id \in EntityIds, attrs \in AttributeSets(EntityAttributes.insert_keyword) :
        LET arg == EntityDict("insert_keyword", id, attrs)
        IN Upsert("insert_keyword", arg, insert_keyword(db, arg))

UpsertSdg ==
    \E id \in EntityIds, attrs \in AttributeSets(EntityAttributes.insert_sdg) :
        LET arg == EntityDict("insert_sdg", id, attrs)
        IN Upsert("insert_sdg", arg, insert_sdg(db, arg))

UpsertSource ==
    \E id \in EntityIds, attrs \in AttributeSets(EntityAttributes.insert_source) :
        LET arg == EntityDict("insert_source", id, attrs)
        IN Upsert("insert_source", arg, insert_source(db, arg))

UpsertNext ==
    \/ UpsertAuthor \/ UpsertInstitution \/ UpsertConcept \/ UpsertTopic
    \/ UpsertKeyword \/ UpsertSdg \/ UpsertSource

UpsertSpec == UpsertInit /\ [][UpsertNext]_vars

(***************************************************************************)
(* The extractors called on their own, each on any document of Documents.  *)
(* unit.args is the document, unit.out what the function returned, or      *)
(* Raised.                                                                 *)
(***************************************************************************)
MaxPositions == 2

\* the entry of key k in a dict: absent, null, or present with value v
OptionalField(k, option, v) ==
    CASE option = "absent" -> <<>>
      [] option = "null" -> << <<k, Null>> >>
      [] option = "present" -> << <<k, v>> >>
Options == {"absent", "null", "present"}

\* an inverted index: the words A and B, either one or both in either
\* order, each with up to MaxPositions positions out of 0, 1 and 3, and
\* the empty index
PositionLists ==
    UNION {[1..n -> {Num(0), Num(1), Num(3)}] : n \in 0..MaxPositions}
AbstractIndexes ==
    {Obj(<<>>)}
    \cup {Obj(<< <<w, List(ps)>> >>) : w \in {"A", "B"}, ps \in PositionLists}
    \cup {Obj(<< <<w[1], List(ps)>>, <<w[2], List(qs)>> >>) :
             w \in {<<"A", "B">>, <<"B", "A">>},
             ps \in PositionLists, qs \in PositionLists}

\* values of abstract_inverted_index that are no mapping from words to
\* lists of numbers
MalformedIndexes ==
    {Str("abc"), Str(""), Num(5), Num(0), Bool(TRUE), Bool(FALSE),
     List(<<>>), List(<< Str("A") >>),
     Obj(<< <<"A", Num(3)>> >>), Obj(<< <<"A", Null>> >>),
     Obj(<< <<"A", Str("x")>> >>), Obj(<< <<"A", List(<< Null >>)>> >>),
     Obj(<< <<"A", List(<< Null, Null >>)>> >>),
     Obj(<< <<"A", List(<< Num(0) >>)>>, <<"B", List(<< Str("x") >>)>> >>)}

\* how the id of an institution is given: absent, null, or one of two ids
MaxInstitutions == 2
MentionedIds ==
    {<<"absent", Null>>, <<"null", Null>>,
     <<"present", Str("I1")>>, <<"present", Str("I2")>>}
IdLists == UNION {[1..n -> MentionedIds] : n \in 0..MaxInstitutions}

\* the institutions of authorship a with these ids, each with a
\* display_name that tells its authorship and its place
InstitutionsOf(a, ids) ==
    [j \in 1..Len(ids) |->
        Obj(OptionalField("id", ids[j][1], ids[j][2])
            \o << <<"display_name", Str("n" \o ToString(a) \o ToString(j))>> >>)]

\* the source ids of a primary location and two locations
SourceIds == {Str("S1"), Str("S2"), Str(""), Null}

Documents ==
    \* authorships[].institutions[].id of two authorships
    {Obj(<< <<"authorships",
              List([a \in 1..2 |->
                      Obj(<< <<"author", Obj(<< <<"id", Str("A" \o ToString(a))>> >>)>>,
                             <<"institutions", List(InstitutionsOf(a, ids[a]))>> >>)])
            >> >>) : ids \in IdLists \X IdLists}
    \* the source ids of primary_location and locations
    \cup {Obj(<< <<"primary_location",
                   Obj(<< <<"source", Obj(<< <<"id", s[1]>> >>)>> >>)>>,
                 <<"locations",
                   List([i \in 1..2 |->
                           Obj(<< <<"source", Obj(<< <<"id", s[i + 1]>> >>)>> >>)])>>
              >>) : s \in SourceIds \X SourceIds \X SourceIds}
    \* abstract_inverted_index
    \cup {Obj(<< <<"id", Str("W1")>> >>
               \o OptionalField("abstract_inverted_index", o, x)) :
             o \in Options, x \in AbstractIndexes \cup MalformedIndexes}
    \* authorships[].author and authorships[].institutions
    \cup {Obj(<< <<"authorships",
                   List(<< Obj(OptionalField("author", o[1],
                                             Obj(<< <<"id", Str("A1")>> >>))
                               \o OptionalField("institutions", o[2],
                                     List(<< Obj(<< <<"id", Str("I1")>> >>) >>)))
                        >>)>> >>) : o \in Options \X Options}
    \* topics[].subfield, field and domain
    \cup {Obj(<< <<"topics",
                   List(<< Obj(<< <<"id", Str("T1")>> >>
                               \o OptionalField("subfield", o[1],
                                                Obj(<< <<"id", Str("SF1")>> >>))
                               \o OptionalField("field", o[2],
                                                Obj(<< <<"id", Str("F1")>> >>))
                               \o OptionalField("domain", o[3],
                                                Obj(<< <<"id", Str("D1")>> >>)))
                        >>)>> >>) : o \in Options \X Options \X Options}
    \* primary_location, locations, and the source of each
    \cup {Obj(OptionalField("primary_location", o[1],
                 Obj(OptionalField("source", o[2], Obj(<< <<"id", Str("S1")>> >>))))
              \o OptionalField("locations", o[3],
                    List(<< Obj(OptionalField("source", o[4],
                                              Obj(<< <<"id", Str("S2")>> >>))) >>))) :
             o \in Options \X Options \X Options \X Options}
    \* the other collections
    \cup {Obj(OptionalField(k, o, List(<< Obj(<< <<"id", Str("X1")>> >>) >>))) :
             k \in {"authorships", "concepts", "topics", "grants", "keywords",
                    "sustainable_development_goals"}, o \in Options}
    \cup {Obj(OptionalField("ids", o, Obj(<< <<"openalex", Str("W1")>> >>))) :
             o \in Options}
    \cup {Obj(OptionalField("referenced_works", o, List(<< Str("W2") >>))) :
             o \in Options}

ExtractInit ==
    /\ AtRest("extract")
    /\ db = EmptyDb
    /\ \E data \in Documents : unit = [f |-> "none", args |-> <<data>>, out |-> Ok(Null)]

Apply(f, out) ==
    /\ pc = "extract"
    /\ unit.f = "none"
    /\ unit' = [unit EXCEPT !.f = f, !.out = out]
    /\ UNCHANGED <<db, driver>>

ExtractWorkData == Apply("extract_work_data", extract_work_data(unit.args[1]))

RebuildAbstract ==
    /\ HasKey(unit.args[1], "abstract_inverted_index")
    /\ Apply("rebuild_abstract_from_inverted_index",
             rebuild_abstract_from_inverted_index(
                 Item(unit.args[1], "abstract_inverted_index")))

\* the extractors of the collections of a work
Extracted(f, data) ==
    CASE f = "extract_ids" -> extract_ids(data)
      [] f = "extract_authors" -> extract_authors(data)
      [] f = "extract_concepts" -> extract_concepts(data)
      [] f = "extract_topics" -> extract_topics(data)
      [] f = "extract_locations" -> extract_locations(data)
      [] f = "extract_references" -> extract_references(data)
      [] f = "extract_grants" -> extract_grants(data)
      [] f = "extract_keywords" -> extract_keywords(data)
      [] f = "extract_sdgs" -> extract_sdgs(data)

SubExtractors ==
    {"extract_ids", "extract_authors", "extract_concepts", "extract_topics",
     "extract_locations", "extract_references", "extract_grants",
     "extract_keywords", "extract_sdgs"}

ExtractCollection == \E f \in SubExtractors : Apply(f, Extracted(f, unit.args[1]))

\* extract_institutions(extract_authors(item))
ExtractInstitutions ==
    /\ extract_authors(unit.args[1]).ok
    /\ Apply("extract_institutions",
             extract_institutions(extract_authors(unit.args[1]).val))

\* extract_sources(extract_locations(item))
ExtractSources ==
    /\ extract_locations(unit.args[1]).ok
    /\ Apply("extract_sources",
             extract_sources(extract_locations(unit.args[1]).val))

ExtractNext ==
    \/ ExtractWorkData \/ RebuildAbstract \/ ExtractCollection
    \/ ExtractInstitutions \/ ExtractSources

ExtractSpec == ExtractInit /\ [][ExtractNext]_vars

(***************************************************************************)
(* Two passes at once, each on a connection of its own (READ COMMITTED):   *)
(* each calls insert_author and, when that returned an id, link_author_to_ *)
(* work (lines 1003-1009).  The SELECT of a function is one step and its   *)
(* UPDATE or INSERT with the commit another; steps of the passes           *)
(* interleave.  The script does not create the tables: whether they carry  *)
(* a unique key on the columns the SELECT reads is either way              *)
(* (unit.unique).  unit.pass[p] is pass p: where it is (at), its           *)
(* arguments (author, link), what its last SELECT found, and what its      *)
(* calls returned (author_id, linked).                                     *)
(***************************************************************************)
NPasses == 2

RaceInit ==
    /\ AtRest("race")
    /\ db = EmptyDb
    /\ \E unique \in BOOLEAN :
       \E ids \in [1..NPasses -> {<<w, a>> : w \in {"W1", "W2"}, a \in {"A1", "A2"}}] :
          unit = [f |-> "race", unique |-> unique,
                  pass |-> [p \in 1..NPasses |->
                     [at |-> "insert_author.select",
                      author |-> [author_id |-> Str(ids[p][2]),
                                  display_name |-> Str("X" \o ToString(p)),
                                  orcid |-> Null],
                      link |-> [work_id |-> Str(ids[p][1]),
                                author_id |-> Str(ids[p][2]),
                                author_position |-> Str("P" \o ToString(p)),
                                is_corresponding |-> Bool(FALSE),
                                raw_author_name |-> Null],
                      found |-> FALSE, author_id |-> Null, linked |-> Null]]]

\* the table, the columns of the WHERE of the SELECT, and the row written by
\* the function pass p is in
StageOf(p) == IF unit.pass[p].at \in {"insert_author.select", "insert_author.write"}
              THEN "insert_author" ELSE "link_author_to_work"
StageTable(p) == IF StageOf(p) = "insert_author" THEN "authors" ELSE "work_authors"
StageKey(p) == IF StageOf(p) = "insert_author" THEN {"id"} ELSE {"work_id", "author_id"}
StageRow(p) ==
    IF StageOf(p) = "insert_author"
    THEN insert_author(EmptyDb, unit.pass[p].author).authors[1]
    ELSE link_author_to_work(EmptyDb, unit.pass[p].link).work_authors[1]

\* cur.execute(SELECT ...); result = cur.fetchone()
RaceSelect(p, at, next) ==
    /\ pc = "race"
    /\ unit.pass[p].at = at
    /\ unit' = [unit EXCEPT !.pass[p].at = next,
                            !.pass[p].found =
                               Selected(db[StageTable(p)], StageKey(p), StageRow(p)) # {}]
    /\ UNCHANGED <<db, driver>>

\* if result: UPDATE ... WHERE key, else: INSERT; conn.commit().  The INSERT
\* of a key that is stored by now raises when the key is unique: rollback
\* and the return of the except clause.
RaceWrite(p, at, next, ret, okRet, failRet) ==
    /\ pc = "race"
    /\ unit.pass[p].at = at
    /\ LET tbl == db[StageTable(p)]
           now == Selected(tbl, StageKey(p), StageRow(p))
           raises == ~unit.pass[p].found /\ unit.unique /\ now # {}
       IN /\ db' = IF raises THEN db
                   ELSE [db EXCEPT ![StageTable(p)] =
                           IF unit.pass[p].found
                           THEN [i \in 1..Len(tbl) |->
                                    IF i \in now THEN StageRow(p) ELSE tbl[i]]
                           ELSE Append(tbl, StageRow(p))]
          /\ unit' = [unit EXCEPT !.pass[p].at = IF raises THEN "done" ELSE next,
                                  !.pass[p][ret] = IF raises THEN failRet ELSE okRet]
    /\ UNCHANGED driver

InsertAuthorSelect ==
    \E p \in 1..NPasses : RaceSelect(p, "insert_author.select", "insert_author.write")

\* author_id = insert_author(...); if author_id: link_author_to_work(...)
InsertAuthorWrite ==
    \E p \in 1..NPasses :
        RaceWrite(p, "insert_author.write", "link_author_to_work.select",
                  "author_id", unit.pass[p].author.author_id, Null)

LinkAuthorSelect ==
    \E p \in 1..NPasses :
        RaceSelect(p, "link_author_to_work.select", "link_author_to_work.write")

LinkAuthorWrite ==
    \E p \in 1..NPasses :
        RaceWrite(p, "link_author_to_work.write", "done", "linked",
                  Bool(TRUE), Bool(FALSE))

RaceNext ==
    \/ InsertAuthorSelect \/ InsertAuthorWrite
    \/ LinkAuthorSelect \/ LinkAuthorWrite

RaceSpec == RaceInit /\ [][RaceNext]_vars

(***************************************************************************)
(* insert_work and insert_reference, the functions that write with         *)
(* ON CONFLICT on the key of their table, called up to MaxUpserts times    *)
(* with any of a few works or pairs.  The tables carry the unique key the  *)
(* statements name.  unit.rets is what the calls returned, in order.       *)
(***************************************************************************)
\* the dicts of extract_work_data tried: an id or none, and a title, a
\* cited_by_count and an is_retracted that are null, falsy or truthy
WorkDicts ==
    {[c \in {WorkColumns[i] : i \in 1..Len(WorkColumns)} |->
         CASE c = "id" -> v[1]
           [] c = "title" -> v[2]
           [] c = "cited_by_count" -> v[3]
           [] c = "is_retracted" -> v[4]
           [] OTHER -> Null] :
        v \in {Str("W1"), Str("W2"), Null}
              \X {Null, Str(""), Str("a")}
              \X {Null, Num(0), Num(5)}
              \X {Null, Bool(FALSE)}}

\* the (work_id, referenced_work_id) pairs tried
ReferencePairs ==
    {[work_id |-> Str(w), x |-> Str(r)] : w \in {"W1", "W2"}, r \in {"R1", "R2"}}

ConflictInit ==
    /\ AtRest("conflict")
    /\ db = EmptyDb
    /\ unit = [f |-> "none", args |-> <<>>, before |-> EmptyDb, rets |-> <<>>]

\* try: execute; commit; return True   except: rollback; return False
ConflictWrite(f, arg, valid, newDb) ==
    /\ pc = "conflict"
    /\ unit.f \in {"none", f}
    /\ Len(unit.args) < MaxUpserts
    /\ db' = IF valid THEN newDb ELSE db
    /\ unit' = [f |-> f, args |-> Append(unit.args, arg), before |-> db,
                rets |-> Append(unit.rets, Bool(valid))]
    /\ UNCHANGED driver

UpsertWork ==
    \E work \in WorkDicts :
        ConflictWrite("insert_work", work, WorkStatementValid(work),
                      insert_work(db, work))

AssertReference ==
    \E pair \in ReferencePairs :
        ConflictWrite("insert_reference", pair, TRUE, insert_reference(db, pair))

ConflictNext == UpsertWork \/ AssertReference

ConflictSpec == ConflictInit /\ [][ConflictNext]_vars

(***************************************************************************)
(* process_json_records: the handling of one item, a work with two         *)
(* authorships and their institutions, on an empty store when no           *)
(* statement fails.  unit.args holds the item.                             *)
(***************************************************************************)
\* the works tried: the second author has an id or a null id, and each
\* authorship has the institutions of one of IdLists
InstitutionWorks ==
    {Obj(<< <<"id", Str("W1")>>,
            <<"authorships",
              List([a \in 1..2 |->
                      Obj(<< <<"author",
                               Obj(<< <<"id", IF a = 1 THEN Str("A1") ELSE id2>> >>)>>,
                             <<"institutions", List(InstitutionsOf(a, ids[a]))>> >>)])
            >> >>) : ids \in IdLists \X IdLists, id2 \in {Str("A2"), Null}}

LoadInit ==
    /\ \E item \in InstitutionWorks :
          /\ calls = <<ItemCalls(item)>>
          /\ unit = [f |-> "item", args |-> <<item>>]
    /\ json_content = [d \in DocIds |-> NoneText]
    /\ processed = [d \in DocIds |-> FALSE]
    /\ db = EmptyDb
    /\ aborted = FALSE
    /\ pc = "item"
    /\ run = 1
    /\ faults = MaxFaults
    /\ batch_size = 1
    /\ records = <<1>>
    /\ ri = 1
    /\ ii = 1
    /\ oi = 1
    /\ rets = NoRets
    /\ total_processed = 0
    /\ total_success = 0
    /\ batch_success = 0
    /\ cleaned = "not run"
    /\ hist = NoHist
    /\ last = NoCall

LoadNext ==
    \/ InsertWork
    \/ InsertWorkIds
    \/ InsertAuthor
    \/ LinkAuthorToWork
    \/ InsertInstitution
    \/ LinkAuthorToInstitution

LoadSpec == LoadInit /\ [][LoadNext]_vars

(***************************************************************************)
(* Properties.                                                             *)
(***************************************************************************)
Range(seq) == {seq[i] : i \in 1..Len(seq)}

\* the fetch rounds of this run that returned document d
RoundsWith(d) == {k \in 1..Len(hist.rounds) : d \in Range(hist.rounds[k])}

AllProcessed == \A d \in DocIds : processed[d]

\* C1: the batch loop does not end by an exception, and when it returns
\* every document has processed = true, whichever statements raise
C1_LoopReturnsAllProcessed ==
    /\ pc # "fatal"
    /\ pc = "returned" => AllProcessed

\* C2: within one run no document is returned by two fetch rounds
C2_FetchedAtMostOnce ==
    \A d \in DocIds : Cardinality(RoundsWith(d)) <= 1

\* C3 as stated: no step of a pipeline run (clean, load, post-pass) takes a
\* processed flag from true back to false
C3_ProcessedMonotonic ==
    [][\A d \in DocIds : processed[d] => processed'[d]]_vars

\* C3, amended: the only step that takes a processed flag from true to false
\* is a clean_db_tables that commits, and it takes every flag to false
C3_OnlyCleanResets ==
    [][(\E d \in DocIds : processed[d] /\ ~processed'[d])
         => /\ pc = "start"
            /\ cleaned' = "True"
            /\ \A d \in DocIds : ~processed'[d]]_vars

\* a clean that reset flags is behind, and the loop of the same run has set
\* them again
C3_Witness ==
    /\ hist.reset # {}
    /\ cleaned = "True"
    /\ pc = "returned"
    /\ AllProcessed

\* C4: while the calls for a document are made its flag is false; a stop
\* between its first write and its mark leaves the flag false, and the loop
\* of the restarted run does not return without having fetched it
C4_MarkAfterWrites ==
    /\ pc \in {"item", "mark"} => ~processed[record_id]
    /\ hist.crashedOn # 0 /\ pc = "crashed" => ~processed[hist.crashedOn]
    /\ hist.crashedOn # 0 /\ pc = "returned" => RoundsWith(hist.crashedOn) # {}

\* the run after a stop in the middle of a document has fetched the
\* document again and has marked it
C4_Witness ==
    /\ hist.crashedOn # 0
    /\ pc = "returned"
    /\ RoundsWith(hist.crashedOn) # {}
    /\ processed[hist.crashedOn]
    /\ db.works # EmptyMap

\* C5: after a later pass over a document no relation table holds more rows
\* of its works than after the first pass
C5_NoMoreRelationRows ==
    \A d \in DocIds :
        Len(hist.passed[d]) = 2 =>
            \A k \in RelationKinds : hist.passed[d][2][k] <= hist.passed[d][1][k]

\* every call of the item in hand has been made and has returned a truthy
\* value
AllCallsSucceeded ==
    \A j \in 1..Len(Calls) :
        Calls[j].k \in DOMAIN rets /\ Truthy(rets[Calls[j].k])

\* C6: after a pass over the document of spec section 8 in which no write
\* failed, the first or a later one, there is exactly the work row W1 with
\* abstract "A B", the author row A1, the institution row I1, one row
\* (W1, A1) in work_authors and one row (W1, A1, I1) in author_institutions
C6_OneRowEach ==
    (pc = "mark" /\ json_content[record_id] = "w1" /\ AllCallsSucceeded) =>
        /\ "W1" \in DOMAIN db.works
        /\ db.works["W1"].id = "W1"
        /\ db.works["W1"].title = "T"
        /\ db.works["W1"].abstract = "A B"
        /\ SelectSeq(db.authors, LAMBDA r : r.id = "A1")
             = <<[id |-> "A1", display_name |-> "X", orcid |-> "NULL"]>>
        /\ SelectSeq(db.institutions, LAMBDA r : r.id = "I1")
             = <<[id |-> "I1", display_name |-> "Inst", ror |-> "NULL",
                  country_code |-> "NULL", type |-> "NULL"]>>
        /\ SelectSeq(db.work_authors, LAMBDA r : r.work_id = "W1")
             = <<[work_id |-> "W1", author_id |-> "A1",
                  author_position |-> "NULL", is_corresponding |-> "false",
                  raw_author_name |-> "NULL"]>>
        /\ SelectSeq(db.author_institutions, LAMBDA r : r.work_id = "W1")
             = <<[work_id |-> "W1", author_id |-> "A1",
                  institution_id |-> "I1"]>>

\* the second pass over that document has ended, no write of it failed
C6_Witness ==
    /\ pc = "mark"
    /\ json_content[record_id] = "w1"
    /\ AllCallsSucceeded
    /\ Len(hist.passed[record_id]) = 2
    /\ Len(db.work_authors) >= 1

\* the call labelled k of the item in hand
CallAt(k) == Calls[CHOOSE j \in 1..Len(Calls) : Calls[j].k = k]

\* a relation whose participant entity has a null id: the call is tested on
\* an insert_ call of an entity whose id is None
NullParticipant(c) ==
    /\ c.g \notin {"", "work"}
    /\ LET e == CallAt(c.g)
       IN \/ e.f = "insert_author" /\ e.a.author_id = Null
          \/ e.f \notin {"insert_author", "insert_work"} /\ e.a.id = Null

\* C7: at the end of an item every call of the item has been made, whichever
\* earlier calls failed, but for the relations of an entity with a null id
C7_EveryWriteAttempted ==
    pc = "mark" /\ calls # <<>> =>
        \A j \in 1..Len(Calls) :
            Calls[j].k \in DOMAIN rets \/ NullParticipant(Calls[j])

\* C8: when the statement for identifier n + 1 of a work raises, the rows of
\* the n identifiers before it stay written
C8_EarlierIdRowsKept ==
    [][(pc = "item" /\ CurCall.f = "insert_work_ids" /\ ~last'.ok)
         => db'.work_ids = WorkIdsAfter(db.work_ids, CurCall.a.work_id,
                                        CurCall.a.ids, last'.n)]_vars

\* C9: the step that marks a document with null or undecodable content
\* writes no derived row, counts the document as handled and not as a
\* success, and goes on to the next record or fetch
C9_UnreadableCounted ==
    [][(pc = "mark_early" /\ processed'[record_id])
         => /\ db' = db
            /\ total_processed' = total_processed + 1
            /\ total_success' = total_success
            /\ pc' \in {"record", "fetch"}]_vars

\* ceil(n / b)
CeilDiv(n, b) == (n + b - 1) \div b

Min(a, b) == IF a < b THEN a ELSE b

\* C10: when no statement raised in the run, the loop returns after exactly
\* ceil(N/B) non-empty fetch rounds, round k holding documents
\* (k-1)B+1 .. min(kB, N) of the N unprocessed ones in ascending id order,
\* and every document is processed
C10_DrainedInRounds ==
    (pc = "returned" /\ ~hist.failed) =>
        LET ids == Ascending(hist.todo)
            N == Len(ids)
            B == batch_size
        IN /\ Len(hist.rounds) = CeilDiv(N, B)
           /\ \A k \in 1..Len(hist.rounds) :
                 hist.rounds[k] = SubSeq(ids, (k - 1) * B + 1, Min(k * B, N))
           /\ AllProcessed

\* three documents drained with batch size 2 in rounds of 2 and 1
C10_Witness ==
    /\ pc = "returned"
    /\ ~hist.failed
    /\ batch_size = 2
    /\ Cardinality(hist.todo) = 3
    /\ Len(hist.rounds) = 2
    /\ Len(hist.rounds[2]) = 1


(***************************************************************************)
(* C11: run on a store whose documents are all processed, the batch loop   *)
(* makes one fetch, which is empty, and returns with both counters at 0:   *)
(* no table and no flag is written, and no call of the store is made.      *)
(***************************************************************************)
C11_AllProcessedNoWrites ==
    [][(pc = "fetch" /\ hist.todo = {} /\ pc' # "crashed")
          => /\ pc' = "returned"
             /\ records' = <<>>
             /\ hist'.rounds = <<>>
             /\ db' = db
             /\ processed' = processed
             /\ last' = last
             /\ total_processed' = 0
             /\ total_success' = 0]_vars

\* a later run has returned from the loop over a filled store, every
\* document of which was processed before
C11_Witness ==
    /\ pc = "returned"
    /\ run > 1
    /\ hist.todo = {}
    /\ hist.rounds = <<>>
    /\ DOMAIN db.works # {}
    /\ \A d \in DocIds : processed[d]


(***************************************************************************)
(* Upserts of one entity id.                                               *)
(***************************************************************************)
\* the last call, the call before it, and the rows of the written table
\* that carry the id of the last call, before and after it
LastArg == unit.args[Len(unit.args)]
EarlierArg == unit.args[Len(unit.args) - 1]
LastId == SqlVal(LastArg[IdKey(unit.f)])
StoredBefore ==
    SelectSeq(unit.before[EntityTable[unit.f]], LAMBDA r : r.id = LastId)
StoredAfter == SelectSeq(db[EntityTable[unit.f]], LAMBDA r : r.id = LastId)
OptionalOf(f) == EntityAttributes[f]

\* C12: after two upserts of one id with two different attribute sets, no
\* attribute of either null, the table holds one row of that id, and its
\* attributes are those of the second upsert.
C12_SecondSetStored ==
    (/\ Len(unit.args) >= 2
     /\ EarlierArg[IdKey(unit.f)] = LastArg[IdKey(unit.f)]
     /\ EarlierArg # LastArg
     /\ \A c \in OptionalOf(unit.f) : EarlierArg[c] # Null /\ LastArg[c] # Null)
    => /\ Len(StoredAfter) = 1
       /\ \A c \in OptionalOf(unit.f) : StoredAfter[1][c] = SqlVal(LastArg[c])

\* C13: an upsert of a stored source leaves every stored non-null
\* display_name, issn_l and type whose new value is null as it was, and
\* with the three of them null it leaves the store as it was.
C13_SourceKeepsNonNull ==
    (unit.f = "insert_source" /\ Len(StoredBefore) > 0)
    => /\ Len(StoredAfter) = Len(StoredBefore)
       /\ \A i \in 1..Len(StoredBefore) :
             \A c \in OptionalOf("insert_source") :
                (LastArg[c] = Null /\ StoredBefore[i][c] # "NULL")
                   => StoredAfter[i][c] = StoredBefore[i][c]
       /\ (\A c \in OptionalOf("insert_source") : LastArg[c] = Null)
             => db = unit.before

\* a stored source with a display_name and no type was upserted with a
\* null display_name and a type, and holds both
C13_Witness ==
    /\ unit.f = "insert_source"
    /\ Len(unit.args) = 2
    /\ Len(StoredBefore) = 1
    /\ StoredBefore[1].display_name = "a"
    /\ StoredBefore[1].type = "NULL"
    /\ LastArg.display_name = Null
    /\ LastArg.type = Str("a")
    /\ StoredAfter = <<[StoredBefore[1] EXCEPT !.type = "a"]>>

\* C14: an upsert of a stored author, institution, concept, topic, keyword
\* or sdg leaves every stored non-null attribute whose new value is null
\* as it was.
C14_EntitiesKeepNonNull ==
    (unit.f \notin {"none", "insert_source"} /\ Len(StoredBefore) > 0)
    => \A i \in 1..Len(StoredBefore) :
          \A c \in OptionalOf(unit.f) :
             (LastArg[c] = Null /\ StoredBefore[i][c] # "NULL")
                => StoredAfter[i][c] = StoredBefore[i][c]


(***************************************************************************)
(* Entities whose id is null.                                              *)
(***************************************************************************)
\* no relation row of d has a null participant
NoNullParticipantRow(d) ==
    /\ \A i \in 1..Len(d.work_authors) : d.work_authors[i].author_id # "NULL"
    /\ \A i \in 1..Len(d.author_institutions) :
          /\ d.author_institutions[i].author_id # "NULL"
          /\ d.author_institutions[i].institution_id # "NULL"
    /\ \A t \in {"work_concepts", "work_topics", "work_keywords", "work_sdgs"} :
          \A i \in 1..Len(d[t]) : d[t][i].id # "NULL"

\* no row of an entity table of d has a null id
NoNullEntityRow(d) ==
    \A f \in DOMAIN EntityAttributes :
        \A i \in 1..Len(d[EntityTable[f]]) : d[EntityTable[f]][i].id # "NULL"

\* C15: an insert_ of an entity whose id is null writes no row and returns
\* None; no call is ever in hand that links such an entity, and no relation
\* row has a null participant.
C15_NullIdNoRelation ==
    /\ NoNullEntityRow(db)
    /\ NoNullParticipantRow(db)
    /\ pc = "item"
          => /\ ~NullParticipant(CurCall)
             /\ \A j \in 1..Len(Calls) :
                   (/\ Calls[j].f \in DOMAIN EntityAttributes
                    /\ Calls[j].a[IdKey(Calls[j].f)] = Null
                    /\ Calls[j].k \in DOMAIN rets)
                   => rets[Calls[j].k] = Null

\* in one item an author, a concept and a topic with a null id have been
\* given to their insert_ functions, and the item has ended
C15_Witness ==
    /\ pc = "item"
    /\ ii = 3
    /\ calls[2][3].f = "insert_author" /\ calls[2][3].a.author_id = Null
    /\ calls[2][5].f = "insert_concept" /\ calls[2][5].a.id = Null
    /\ calls[2][7].f = "insert_topic" /\ calls[2][7].a.id = Null
    /\ last.f = "insert_work_ids"
    /\ DOMAIN db.works = {"W4", "W5"}
    /\ db.authors # <<>>


(***************************************************************************)
(* Passes that interleave.                                                 *)
(***************************************************************************)
\* C16: when the passes have ended, whatever the order of their steps, the
\* author and the link of each pass are stored in exactly one row, no call
\* returned a failure, and every pass has made its link.
C16_RaceAsAtomic ==
    (\A p \in 1..NPasses : unit.pass[p].at = "done")
    => \A p \in 1..NPasses :
          LET a == unit.pass[p].link
          IN /\ unit.pass[p].author_id # Null
             /\ unit.pass[p].linked = Bool(TRUE)
             /\ Len(SelectSeq(db.authors,
                              LAMBDA r : r.id = SqlVal(a.author_id))) = 1
             /\ Len(SelectSeq(db.work_authors,
                              LAMBDA r : /\ r.work_id = SqlVal(a.work_id)
                                         /\ r.author_id = SqlVal(a.author_id))) = 1


(***************************************************************************)
(* Relations and the entities they use.                                    *)
(***************************************************************************)
RelationCalls ==
    {"link_author_to_work", "link_author_to_institution",
     "link_concept_to_work", "link_topic_to_work", "link_keyword_to_work",
     "link_sdg_to_work", "insert_location"}

\* the calls of the item in hand that upsert the entities relation call c
\* uses: the work, the entity of the link (and of the link's author), the
\* source of the location
EntityCallsOf(c) ==
    {"work"}
    \cup (IF c.f = "insert_location"
          THEN (IF Truthy(c.a.location.source_id) THEN {c.k \o ".source"} ELSE {})
          ELSE {c.g})
    \cup (IF c.f = "link_author_to_institution" THEN {CallAt(c.g).g} ELSE {})

\* C17: a relation row is written only when the upserts of the entities it
\* uses have been made earlier for the same item and have succeeded.
C17_RelationsAfterEntities ==
    [][(/\ pc = "item"
        /\ pc' # "crashed"
        /\ CurCall.f \in RelationCalls
        /\ last' = [f |-> CurCall.f, ok |-> TRUE, n |-> 0])
          => \A k \in EntityCallsOf(CurCall) :
                k \in DOMAIN rets /\ Truthy(rets[k])]_vars


(***************************************************************************)
(* The extractors.                                                         *)
(***************************************************************************)
\* C18: an extractor of a collection of a work, given a document whose
\* optional fields are absent, null or present, returns and does not raise.
C18_ExtractorsTotal ==
    unit.f \in SubExtractors => unit.out.ok

\* the index given, when the document has one
IndexGiven == Item(unit.args[1], "abstract_inverted_index")

\* a mapping from words to lists of numbers
WellFormedIndex(x) ==
    /\ IsDict(x)
    /\ \A i \in 1..Len(x.v) :
          /\ IsList(x.v[i][2])
          /\ \A j \in 1..Len(x.v[i][2].v) : x.v[i][2].v[j].t = "num"

\* the number of positions of the words before the i-th
RECURSIVE PositionsBefore(_, _)
PositionsBefore(x, i) ==
    IF i <= 1 THEN 0
    ELSE PositionsBefore(x, i - 1) + Len(x.v[i - 1][2].v)

\* the m-th (word, position) pair of index x in the order of the index:
\* that of the words, and for a word that of its positions
PairOf(x, m) ==
    LET ij == CHOOSE ij \in (1..Len(x.v)) \X (1..MaxPositions) :
                  /\ ij[2] <= Len(x.v[ij[1]][2].v)
                  /\ PositionsBefore(x, ij[1]) + ij[2] = m
    IN <<x.v[ij[1]][1], x.v[ij[1]][2].v[ij[2]].v>>

\* the place in the abstract of the m-th of the n pairs: after the pairs of
\* a lower position and the earlier pairs of its position
PlaceOf(x, n, m) ==
    1 + Cardinality({k \in 1..n :
                        \/ PairOf(x, k)[2] < PairOf(x, m)[2]
                        \/ PairOf(x, k)[2] = PairOf(x, m)[2] /\ k < m})

\* words separated by single spaces
RECURSIVE Spaced(_)
Spaced(ws) ==
    IF ws = <<>> THEN ""
    ELSE IF Len(ws) = 1 THEN ws[1]
         ELSE Spaced(SubSeq(ws, 1, Len(ws) - 1)) \o " " \o ws[Len(ws)]

\* C19: for a non-empty index from words to lists of numbers the abstract
\* is the words of the (word, position) pairs, one per pair, separated by
\* single spaces, in ascending order of position, pairs of one position in
\* the order of the index.
C19_AbstractInPositionOrder ==
    (/\ unit.f = "rebuild_abstract_from_inverted_index"
     /\ WellFormedIndex(IndexGiven)
     /\ Truthy(IndexGiven))
    => LET n == PositionsBefore(IndexGiven, Len(IndexGiven.v) + 1)
           words == [r \in 1..n |->
                        PairOf(IndexGiven,
                               CHOOSE m \in 1..n : PlaceOf(IndexGiven, n, m) = r)[1]]
       IN /\ \A r \in 1..n : \E m \in 1..n : PlaceOf(IndexGiven, n, m) = r
          /\ unit.out = Ok(Str(Spaced(words)))

\* {"B": [3, 1], "A": [1, 0]} gives "A B A B": positions that repeat, are
\* not in order and leave out 2
C19_Witness ==
    /\ unit.f = "rebuild_abstract_from_inverted_index"
    /\ IndexGiven = Obj(<< <<"B", List(<<Num(3), Num(1)>>)>>,
                           <<"A", List(<<Num(1), Num(0)>>)>> >>)
    /\ unit.out = Ok(Str("A B A B"))

\* C20: extract_work_data returns whatever the abstract_inverted_index is,
\* and the abstract is null when the index is absent, empty or no mapping
\* from words to lists of numbers.
C20_AbstractNeverRaises ==
    unit.f = "extract_work_data"
    => /\ unit.out.ok
       /\ (\/ ~HasKey(unit.args[1], "abstract_inverted_index")
           \/ ~Truthy(IndexGiven)
           \/ ~WellFormedIndex(IndexGiven))
             => unit.out.val.abstract = Null

(***************************************************************************)
(* Institutions and sources of a work.                                     *)
(***************************************************************************)
\* the authorships of the document given are a list of dicts, each with a
\* list of dicts as its institutions
AuthorshipsGiven ==
    /\ HasKey(unit.args[1], "authorships")
    /\ IsList(Item(unit.args[1], "authorships"))
    /\ \A a \in 1..Len(Item(unit.args[1], "authorships").v) :
          LET authorship == Item(unit.args[1], "authorships").v[a]
          IN /\ IsDict(authorship)
             /\ HasKey(authorship, "institutions")
             /\ IsList(Item(authorship, "institutions"))
             /\ AllDicts(Item(authorship, "institutions").v)

\* the institutions of the document given that carry an id, in document
\* order: by authorship, then by place in the authorship
MentionsGiven ==
    LET as == Item(unit.args[1], "authorships").v
    IN SelectSeq(Flatten([a \in 1..Len(as) |-> Item(as[a], "institutions").v]),
                 LAMBDA inst : HasKey(inst, "id"))

\* C21: extract_institutions returns exactly one record per distinct
\* institution id of the authorships, and the record of an id carries the
\* display_name, ror, country_code and type of the first institution, in
\* document order, that has this id.
C21_FirstInstitutionWins ==
    (unit.f = "extract_institutions" /\ AuthorshipsGiven)
    => /\ unit.out.ok
       /\ \A i, j \in 1..Len(unit.out.val) :
             unit.out.val[i].id = unit.out.val[j].id => i = j
       /\ {unit.out.val[i].id : i \in 1..Len(unit.out.val)}
             = {Item(MentionsGiven[k], "id") : k \in 1..Len(MentionsGiven)}
       /\ \A i \in 1..Len(unit.out.val) :
             LET first == CHOOSE k \in 1..Len(MentionsGiven) :
                             /\ Item(MentionsGiven[k], "id") = unit.out.val[i].id
                             /\ \A m \in 1..(k - 1) :
                                   Item(MentionsGiven[m], "id") # unit.out.val[i].id
             IN \A c \in {"display_name", "ror", "country_code", "type"} :
                   unit.out.val[i][c] = Get(MentionsGiven[first], c)

\* both authorships name I1 and the second names I2 before it: I1 is
\* returned once with the display_name of the first authorship, then I2
C21_Witness ==
    /\ unit.f = "extract_institutions"
    /\ AuthorshipsGiven
    /\ Len(MentionsGiven) = 3
    /\ Get(MentionsGiven[1], "id") = Str("I1")
    /\ Get(MentionsGiven[2], "id") = Str("I2")
    /\ Get(MentionsGiven[3], "id") = Str("I1")
    /\ Len(unit.out.val) = 2
    /\ unit.out.val[1].id = Str("I1") /\ unit.out.val[1].display_name = Str("n11")
    /\ unit.out.val[2].id = Str("I2") /\ unit.out.val[2].display_name = Str("n21")

\* C22: no record returned by extract_institutions or extract_sources has
\* a null id, whatever ids the authorships and the locations carry.
C22_NoNullIdRecord ==
    (unit.f \in {"extract_institutions", "extract_sources"} /\ unit.out.ok)
    => \A i \in 1..Len(unit.out.val) : unit.out.val[i].id # Null

(***************************************************************************)
(* Clean mode.                                                             *)
(***************************************************************************)
\* the tables derived from the raw documents
DerivedTables ==
    {"works", "work_ids", "authors", "work_authors", "institutions",
     "author_institutions", "concepts", "work_concepts", "topics",
     "work_topics", "sources", "locations", "referenced_works", "grants",
     "keywords", "work_keywords", "sdgs", "work_sdgs"}

\* C23: when clean_db_tables, called before the batch loop, has returned
\* True, every document has processed = false and every derived table is
\* empty.
C23_CleanEmptiesAll ==
    (pc = "process" /\ cleaned = "True")
    => /\ \A d \in DocIds : ~processed[d]
       /\ \A t \in DerivedTables : db[t] = EmptyDb[t]

(***************************************************************************)
(* The exit status.                                                        *)
(***************************************************************************)
\* C24: when ensure_table_structure has failed the batch loop is not
\* entered and the run does not end with status 0; and a run ends with a
\* non-zero status only when the connection was not made, the bootstrap
\* failed, or the closing statistics raised, never by a failure in the
\* handling of a document.
C24_FatalBeforeLoopOnly ==
    /\ hist.bootstrap = "False" => ~InLoop /\ pc \notin {"returned", "stats", "exit"}
    /\ ExitedNonZero
          => \/ pc \in {"refused", "unreported"}
             \/ hist.bootstrap = "False"

(***************************************************************************)
(* The matching script.                                                    *)
(***************************************************************************)
\* C25: a call of run_matching_script that returns False leaves every row
\* of every derived table and every processed flag as it was, and main goes
\* on to the statistics and the normal end of the run.
C25_FailedMatchingKeepsLoads ==
    [][(/\ pc \in {"returned", "skipped"}
        /\ hist'.post = "ran"
        /\ ~last'.ok)
          => /\ \A t \in DerivedTables : db'[t] = db[t]
             /\ processed' = processed
             /\ pc' = "stats"]_vars

\* the matching script has failed after a load, and the run has ended with
\* the loaded rows and the flags in place
C25_Witness ==
    /\ pc = "exit"
    /\ hist.post = "ran"
    /\ last.f = "run_matching_script"
    /\ ~last.ok
    /\ hist.rounds # <<>>
    /\ AllProcessed
    /\ DOMAIN db.works # {}
    /\ db.authors # <<>>

\* C26: the matching script is not run before the batch loop has returned
\* or was skipped, and a run that ends normally has run it unless it was
\* disabled by --no-match.
C26_MatchingUnlessDisabled ==
    /\ hist.post # "none" => pc \in {"stats", "exit", "unreported"}
    /\ pc \in {"stats", "exit"} => hist.post \in {"ran", "disabled"}

(***************************************************************************)
(* The counters process_json_records returns.                              *)
(***************************************************************************)
\* the documents marked processed in this run
MarkedInRun == {d \in hist.todo : processed[d]}

\* C27: the success counter returned is the number of documents handled in
\* the run for at least one work of which insert_work returned True; a
\* document that is a list of works counts once.
C27_SuccessCountsDocuments ==
    pc = "returned" => total_success = Cardinality(hist.loaded)

\* C28: the attempted counter returned is the number of documents marked
\* processed in the run, whatever their handling came to.
C28_AttemptedCountsMarked ==
    pc = "returned" => total_processed = Cardinality(MarkedInRun)

(***************************************************************************)
(* Writes with ON CONFLICT.                                                *)
(***************************************************************************)
\* the rows of referenced_works that hold the pair
RowsOfPair(pair) ==
    SelectSeq(db.referenced_works,
              LAMBDA r : /\ r.work_id = SqlVal(pair.work_id)
                         /\ r.referenced_work_id = SqlVal(pair.x))

\* C29: after any calls of insert_reference, each pair given is held by
\* exactly one row, however often it was given, and every call has
\* returned True.
C29_ReferenceOnce ==
    unit.f = "insert_reference"
    => \A i \in 1..Len(unit.args) :
          /\ Len(RowsOfPair(unit.args[i])) = 1
          /\ unit.rets[i] = Bool(TRUE)

\* one pair was given twice in a row
C29_Witness ==
    /\ unit.f = "insert_reference"
    /\ Len(unit.args) >= 2
    /\ LastArg = EarlierArg
    /\ Len(RowsOfPair(LastArg)) = 1
    /\ Len(db.referenced_works) = Len(unit.before.referenced_works)
    /\ unit.rets[Len(unit.rets)] = Bool(TRUE)

\* C30: insert_work for an id that is stored sets each column whose new
\* value is not null to that value, leaves each column whose new value is
\* null as it was, leaves the other rows as they were, and returns True.
C30_WorkKeepsNullColumns ==
    (unit.f = "insert_work" /\ LastId \in DOMAIN unit.before.works)
    => /\ DOMAIN db.works = DOMAIN unit.before.works
       /\ \A id \in DOMAIN db.works \ {LastId} :
             db.works[id] = unit.before.works[id]
       /\ \A c \in Range(WorkColumns) :
             db.works[LastId][c] = IF LastArg[c] # Null THEN SqlVal(LastArg[c])
                                   ELSE unit.before.works[LastId][c]
       /\ unit.rets[Len(unit.rets)] = Bool(TRUE)

\* a stored work with a title and a count was upserted with a null title
\* and the count 0: the title is kept and the count is 0
C30_Witness ==
    /\ unit.f = "insert_work"
    /\ LastId \in DOMAIN unit.before.works
    /\ unit.before.works[LastId].title = "a"
    /\ unit.before.works[LastId].cited_by_count = "5"
    /\ LastArg.title = Null
    /\ LastArg.cited_by_count = Num(0)
    /\ db.works[LastId].title = "a"
    /\ db.works[LastId].cited_by_count = "0"

(***************************************************************************)
(* The counters of process_json_records, and the items of a list.          *)
(***************************************************************************)
\* C31: in the batch loop and when it has returned, total_success is at
\* most total_processed.
C31_SuccessAtMostAttempted ==
    (InLoop \/ pc = "returned") => total_success <= total_processed

\* C32: when the handling of a document has come to its mark, after the
\* loop over its items or in the except clause, the item in hand is the last
\* item of the document: every item before it was handled, none was left.
C32_EveryItemAttempted ==
    (pc \in {"mark", "except"} /\ calls # <<>>) => ii = Len(calls)

(***************************************************************************)
(* The institutions stored and the institutions extract_institutions       *)
(* gives.                                                                  *)
(***************************************************************************)
\* the records extract_institutions gives for the item, without those whose
\* id is null
DerivedInstitutions ==
    LET kept == extract_institutions(extract_authors(unit.args[1]).val).val
    IN {kept[i] : i \in {j \in 1..Len(kept) : kept[j].id # Null}}

\* the row of openalex.institutions that holds the record
StoredAs(r) == [c \in DOMAIN r |-> SqlVal(r[c])]

\* C33: when the calls of an item whose insert_work returned True are done
\* and no statement failed, the ids of the rows of openalex.institutions
\* are the ids of the records extract_institutions gives for the authors of
\* the item, and the row of each id holds the attributes of that record.
C33_StoredAsExtracted ==
    (pc = "mark" /\ unit.f = "item" /\ Made(rets, "work") /\ ~hist.failed)
    => /\ {db.institutions[i].id : i \in 1..Len(db.institutions)}
             = {SqlVal(r.id) : r \in DerivedInstitutions}
       /\ \A r \in DerivedInstitutions :
             \E i \in 1..Len(db.institutions) : db.institutions[i] = StoredAs(r)

(***************************************************************************)
(* What clean_db_tables returns and what it has done.                      *)
(***************************************************************************)
\* the tables clean_db_tables truncates, with those CASCADE reaches
TruncatedTables == DerivedTables \ {"sources"}

\* C34: after a call of clean_db_tables that returned True every document
\* has processed = false and every truncated table is empty, whether the
\* cross-reference table exists or not; after a call that returned False
\* the flags and the tables are as they were before the call.
C34_CleanTrueIffCommitted ==
    [][(pc = "start" /\ pc' = "process" /\ cleaned' # "not run")
       => /\ cleaned' = "True"
                => /\ \A d \in DocIds : ~processed'[d]
                   /\ \A t \in TruncatedTables : db'[t] = EmptyDb[t]
          /\ cleaned' = "False" => (db' = db /\ processed' = processed)]_vars

====
